---------------------------- MODULE Spec2Model ----------------------------
(***************************************************************************)
(* Model of the Chicago crime arrest classifier: feature preparation       *)
(* (chicago_crimes/data_loader.py), the feature/target split               *)
(* (chicago_crimes/feature_engineer.py), the serverless handler            *)
(* (aws/lambda/ml-predictor.py) and the web upload handler                 *)
(* (src/predict-api.py).                                                   *)
(*                                                                         *)
(* A DataFrame is [cols, dtdate, rows]: the set of column names, whether   *)
(* the date column has a datetime dtype (so that .dt works), and the       *)
(* sequence of rows, each a function from column name to cell.             *)
(* A timestamp is <<month, day, hour>> of the year 2023; NaT is <<>>.      *)
(* A missing number is NaN, a missing string is NA.                        *)
(* A probability is an integer number of thousandths, 0 .. 1000.           *)
(***************************************************************************)
EXTENDS Integers, Sequences, FiniteSets

VARIABLES
    df,       \* the caller's DataFrame object (mutated in place by prepare_features)
    prev,     \* the call of prepare_features before the last one
    last,     \* the last call of prepare_features: argument, mapping, outcome
    scores,   \* the classifier's output for a batch: <<label, probability>> per row
    lam,      \* the results the serverless handler builds from scores
    web,      \* the results the web upload handler builds from scores
    store,    \* the result table: file key -> item
    pipeline, \* the serverless process's model handle: None, or a loaded pipeline
    pickle,   \* the persisted pipeline on disk, if there is one
    resp,     \* the last invocation: its input and its outcome
    train,    \* the last call of a training-side function: argument and outcome
    disk,     \* the model files on disk: path -> pickled object
    remote,   \* the data portal: the number of rows each batch's query matches
    extract,  \* the extraction script: batch, offset, rows so far, position
    saved     \* the files the extraction script has written, in order

featVars == <<df, prev, last>>
riskVars == <<scores, lam, web>>
serveVars == <<store, pipeline, pickle, resp>>
offlineVars == <<train, disk, remote, extract, saved>>
vars == <<df, prev, last, scores, lam, web, store, pipeline, pickle, resp,
          train, disk, remote, extract, saved>>

\* the size of the sample DataFrames
MaxRows == 2
\* the size of the scored batches
MaxBatch == 2
\* the number of records of one storage event
MaxRecords == 1
\* the number of records of one event handed to lambda_handler
MaxEventRecords == 2
\* the longest label vector handed to compute_class_weights
MaxLabels == 4
\* the longest header drawn from the sample columns
MaxHeader == 3
\* the rows per page of the extraction (100_000 in extract_data.py, line 45,
\* scaled down) and the most rows the portal holds for one batch
limit == 2
MaxRemote == 5

---------------------------------------------------------------------------
(* Missing values *)

\* pandas' NaN in a numeric column (e.g. the hour of a NaT timestamp)
NaN == -1
\* pandas' NaN / None in a string column
NA == "<NA>"
\* pandas' NaT in a datetime column
NaT == <<>>

NumCols == {"district", "ward", "community_area", "hour", "day_of_week",
            "month", "quarter", "is_night", "is_weekend", "id"}
BoolCols == {"domestic", "arrest"}

\* whether the cell v of column c is null (what DataFrame.dropna looks at)
IsNull(c, v) ==
    IF c \in BoolCols THEN FALSE
    ELSE IF c \in NumCols THEN v = NaN
    ELSE IF c = "date" THEN v = NaT
    ELSE v = NA

---------------------------------------------------------------------------
(* Values of the variables a specification does not use *)

\* no DataFrame, no call of prepare_features yet
EmptyTable == [cols |-> {}, dtdate |-> FALSE, rows |-> <<>>]
NoCall == [called |-> FALSE, mode |-> "", arg |-> EmptyTable, map |-> <<>>,
           ok |-> FALSE, err |-> "", after |-> EmptyTable, ret |-> EmptyTable]
\* no results built yet
NoResults == [built |-> FALSE]

FeatIdle == df = EmptyTable /\ prev = NoCall /\ last = NoCall

RiskIdle == scores = <<>> /\ lam = NoResults /\ web = NoResults

\* no invocation yet
NoResponse == [handler |-> "none"]
\* no pipeline: the handle is None, the pickle is not on disk
NoModel == [loaded |-> FALSE, clf |-> <<>>]
ServeIdle ==
    /\ store = <<>>
    /\ pipeline = NoModel
    /\ pickle = NoModel
    /\ resp = NoResponse
\* no training-side call yet, no model file, the extraction script not started
NoTraining == [op |-> "none"]
NoExtract == [pc |-> "idle"]
OfflineIdle ==
    /\ train = NoTraining
    /\ disk = <<>>
    /\ remote = <<>>
    /\ extract = NoExtract
    /\ saved = <<>>

\* the sequences over S of length up to n
RECURSIVE SeqsUpTo(_, _)
SeqsUpTo(S, n) ==
    IF n = 0 THEN {<<>>}
    ELSE LET shorter == SeqsUpTo(S, n - 1)
         IN  shorter \cup {Append(s, x) : s \in shorter, x \in S}

---------------------------------------------------------------------------
(* Timestamps: <<month, day, hour>> in 2023 *)

DaysInMonth == <<31, 28, 31, 30, 31, 30, 31, 31, 30, 31, 30, 31>>

RECURSIVE DaysBefore(_)
DaysBefore(m) == IF m = 1 THEN 0 ELSE DaysBefore(m - 1) + DaysInMonth[m - 1]

\* a text that parses as a timestamp
IsTimestamp(raw) ==
    /\ Len(raw) = 3
    /\ raw[1] \in 1..12
    /\ raw[2] \in 1..DaysInMonth[raw[1]]
    /\ raw[3] \in 0..23

\* Series.dt.hour: NaN for NaT
DtHour(ts) == IF ts = NaT THEN NaN ELSE ts[3]
\* Series.dt.weekday: Monday = 0 .. Sunday = 6; 2023-01-01 is a Sunday
DtWeekday(ts) ==
    IF ts = NaT THEN NaN ELSE (DaysBefore(ts[1]) + ts[2] + 5) % 7
\* Series.dt.month
DtMonth(ts) == IF ts = NaT THEN NaN ELSE ts[1]
\* Series.dt.quarter
DtQuarter(ts) == IF ts = NaT THEN NaN ELSE ((ts[1] - 1) \div 3) + 1

\* comparisons of a numeric cell: every comparison with NaN is False
Ge(a, b) == a # NaN /\ a >= b
Lt(a, b) == a # NaN /\ a < b

BoolToInt(b) == IF b THEN 1 ELSE 0

---------------------------------------------------------------------------
(* prepare_features (data_loader.py, 31-48) *)

\* variant of IsNight: the evening starts one hour late
NightFromOff(hour) == BoolToInt(Ge(hour, 19) \/ Lt(hour, 6))
\* line 40: ((df['hour'] >= 18) | (df['hour'] < 6)).astype(int)
IsNight(hour) == BoolToInt(Ge(hour, 18) \/ Lt(hour, 6))

\* variant of IsWeekend: Saturday is not counted
WeekendOff(day_of_week) == BoolToInt(Ge(day_of_week, 6))
\* line 41: (df['day_of_week'] >= 5).astype(int)
IsWeekend(day_of_week) == BoolToInt(Ge(day_of_week, 5))

\* variant of SeriesMap: an unmapped description is kept as it is
MapKeepRaw(d, location_mapping) ==
    IF d = NA THEN NA
    ELSE IF d \in DOMAIN location_mapping THEN location_mapping[d] ELSE d
\* Series.map(dict): a value that is no key of the dict (NaN included) maps to NaN
SeriesMap(d, location_mapping) ==
    IF d # NA /\ d \in DOMAIN location_mapping THEN location_mapping[d] ELSE NA

\* Series.fillna(value)
FillNa(v, value) == IF v = NA THEN value ELSE v

\* df[c] = vals: the column c is added, or overwritten when present; vals
\* holds one cell per row
SetCol(t, c, vals) ==
    [t EXCEPT !.cols = @ \cup {c},
              !.rows = [i \in 1..Len(t.rows) |->
                          [k \in DOMAIN t.rows[i] \cup {c} |->
                              IF k = c THEN vals[i] ELSE t.rows[i][k]]]]

\* df.drop(columns=cs, inplace=True)
DropCols(t, cs) ==
    [cols |-> t.cols \ cs,
     dtdate |-> IF "date" \in cs THEN FALSE ELSE t.dtdate,
     rows |-> [i \in 1..Len(t.rows) |->
                 [k \in DOMAIN t.rows[i] \ cs |-> t.rows[i][k]]]]

\* the column c of t as a sequence of cells
Col(t, c) == [i \in 1..Len(t.rows) |-> t.rows[i][c]]

\* line 34: df['hour'] = df['date'].dt.hour
AddHour(t) ==
    SetCol(t, "hour", [i \in 1..Len(t.rows) |-> DtHour(Col(t, "date")[i])])
\* line 35: df['day_of_week'] = df['date'].dt.weekday
AddDayOfWeek(t) ==
    SetCol(t, "day_of_week", [i \in 1..Len(t.rows) |-> DtWeekday(Col(t, "date")[i])])
\* line 36: df['month'] = df['date'].dt.month
AddMonth(t) ==
    SetCol(t, "month", [i \in 1..Len(t.rows) |-> DtMonth(Col(t, "date")[i])])
\* line 37: df['quarter'] = df['date'].dt.quarter
AddQuarter(t) ==
    SetCol(t, "quarter", [i \in 1..Len(t.rows) |-> DtQuarter(Col(t, "date")[i])])
\* line 40: df['is_night'] from df['hour']
AddIsNight(t) ==
    SetCol(t, "is_night", [i \in 1..Len(t.rows) |-> IsNight(Col(t, "hour")[i])])
\* line 41: df['is_weekend'] from df['day_of_week']
AddIsWeekend(t) ==
    SetCol(t, "is_weekend",
           [i \in 1..Len(t.rows) |-> IsWeekend(Col(t, "day_of_week")[i])])

\* lines 34-41: the temporal features and the binary flags, in this order
AddTemporal(t) ==
    AddIsWeekend(AddIsNight(AddQuarter(AddMonth(AddDayOfWeek(AddHour(t))))))

\* variant of AddLocationGroup: an unmapped row takes the group of the row
\* above it (a forward fill) before the constant fill
LocationFfill(t, location_mapping) ==
    LET grp == [i \in 1..Len(t.rows) |->
                   SeriesMap(Col(t, "location_description")[i], location_mapping)]
        ffill(i) == IF i > 1 /\ grp[i] = NA THEN grp[i - 1] ELSE grp[i]
    IN  SetCol(t, "location_group",
               [i \in 1..Len(t.rows) |-> FillNa(ffill(i), "Unknown/Other")])
\* lines 44-45: df['location_description'].map(location_mapping).fillna(...)
AddLocationGroup(t, location_mapping) ==
    SetCol(t, "location_group",
           [i \in 1..Len(t.rows) |->
               FillNa(SeriesMap(Col(t, "location_description")[i], location_mapping),
                      "Unknown/Other")])

\* the call returns: the object handed in, as it is now
Returned(out) == [ok |-> TRUE, err |-> "", df |-> out, ret |-> out]

\* the call raises err, and leaves the object handed in as it is now
RaisedOn(out, err) == [ok |-> FALSE, err |-> err, df |-> out, ret |-> out]

\* variant of MapAndDrop: the rows without a date are dropped as well
MapAndDropUndated(t, location_mapping) ==
    IF "location_description" \notin t.cols
    THEN RaisedOn(t, "KeyError: 'location_description'")
    ELSE Returned(DropCols(AddLocationGroup(
                      [t EXCEPT !.rows = SelectSeq(@, LAMBDA row : row["date"] # NaT)],
                      location_mapping),
                  {"date", "location_description"}))

\* lines 44-48 on the table t that lines 34-41 have left
MapAndDrop(t, location_mapping) ==
    IF "location_description" \notin t.cols
    THEN RaisedOn(t, "KeyError: 'location_description'")
    ELSE Returned(DropCols(AddLocationGroup(t, location_mapping),
                           {"date", "location_description"}))

\* prepare_features(df, location_mapping): the outcome, the DataFrame object
\* after the call (the function works in place, also when it raises half-way)
\* and the value returned (the same object) when it does not raise
prepare_features(d, location_mapping) ==
    IF "date" \notin d.cols THEN RaisedOn(d, "KeyError: 'date'")
    ELSE IF ~d.dtdate THEN RaisedOn(d, "AttributeError: .dt")
    ELSE MapAndDrop(AddTemporal(d), location_mapping)

---------------------------------------------------------------------------
(* Inputs of the feature-preparation specifications *)

\* the columns a loaded incident table carries besides the target
RawCols == {"date", "location_description", "primary_type", "domestic",
            "district", "ward", "community_area", "fbi_code"}

\* one incident row (tests/conftest.py, sample_dataframe)
RawRow(date, loc) ==
    [c \in RawCols |->
        CASE c = "date" -> date
          [] c = "location_description" -> loc
          [] c = "primary_type" -> "THEFT"
          [] c = "domestic" -> FALSE
          [] c = "fbi_code" -> "06"
          [] OTHER -> 1]

\* tests/conftest.py, mock_location_mapping
MockMapping ==
    [d \in {"STREET", "RESIDENCE", "APARTMENT", "SIDEWALK", "RESTAURANT"} |->
        CASE d = "STREET" -> "Street/Public Open"
          [] d = "SIDEWALK" -> "Street/Public Open"
          [] d = "RESTAURANT" -> "Food/Entertainment/Recreation"
          [] OTHER -> "Residential"]
\* tests/test_data_loader.py, test_prepare_features
SmallMapping ==
    [d \in {"STREET", "RESIDENCE"} |->
        IF d = "STREET" THEN "Street/Public" ELSE "Residential"]
Mappings == {MockMapping, SmallMapping}

\* pd.to_datetime(..., errors="coerce") of one text (ml-predictor.py, 250)
ToDatetimeCoerce(raw) == IF IsTimestamp(raw) THEN raw ELSE NaT

\* every text <<month, day, hour>> with a day up to 31, and the empty text
RawDates == ((1..12) \X (1..31) \X (0..23)) \cup {<<>>}
Locations == {"STREET", "APARTMENT", "VACANT LOT", NA}

\* the one-row tables of the record specification
RecordTables ==
    {[cols |-> RawCols, dtdate |-> TRUE,
      rows |-> <<RawRow(ToDatetimeCoerce(raw), loc)>>] :
        raw \in RawDates, loc \in Locations}

\* Saturday 2023-01-07 18:00 on a mapped location; Wednesday 2023-06-14
\* 09:00 on a location only MockMapping maps; a row without date or location
SampleRows == {RawRow(<<1, 7, 18>>, "STREET"),
               RawRow(<<6, 14, 9>>, "APARTMENT"),
               RawRow(NaT, NA)}

\* the sample tables: up to MaxRows sample rows with every column, and
\* one-row tables without a date column, without a location column, and
\* with a date column of texts (object dtype)
SampleTables ==
    {[cols |-> RawCols, dtdate |-> TRUE, rows |-> rs] :
        rs \in SeqsUpTo(SampleRows, MaxRows) \ {<<>>}}
    \cup {DropCols([cols |-> RawCols, dtdate |-> TRUE,
                    rows |-> <<RawRow(<<1, 7, 18>>, "STREET")>>], {c}) :
            c \in {"date", "location_description"}}
    \cup {[cols |-> RawCols, dtdate |-> FALSE,
           rows |-> <<RawRow(<<1, 7, 18>>, "STREET")>>]}

---------------------------------------------------------------------------
(* Calls of prepare_features *)


\* the record of one call: the argument as it was, the mapping, the outcome,
\* the argument object after the call and the value returned
CallRecord(mode, d, m) ==
    LET r == prepare_features(d, m)
    IN  [called |-> TRUE, mode |-> mode, arg |-> d, map |-> m,
         ok |-> r.ok, err |-> r.err, after |-> r.df, ret |-> r.ret]

\* a caller builds a DataFrame and hands it to prepare_features
\* (create_dataset: df = load_data(...); df = prepare_features(df, ...));
\* new tables come in the first two calls, the calls that follow work on the
\* object the caller holds
CallOnFresh(t, m) ==
    /\ ~prev.called
    /\ last' = CallRecord("fresh", t, m)
    /\ prev' = last
    /\ df' = last'.after
    /\ UNCHANGED <<riskVars, serveVars, offlineVars>>

\* the caller hands the DataFrame object it holds to prepare_features again
CallAgain(m) ==
    /\ last.called
    /\ last' = CallRecord("again", df, m)
    /\ prev' = last
    /\ df' = last'.after
    /\ UNCHANGED <<riskVars, serveVars, offlineVars>>

\* prepare_features(df.copy(), location_mapping): the caller's object is not
\* the one handed over (process_predictions, upload_predict, the tests)
CallOnCopy(m) ==
    /\ last' = CallRecord("copy", df, m)
    /\ prev' = last
    /\ df' = df
    /\ UNCHANGED <<riskVars, serveVars, offlineVars>>

\* one application of prepare_features to a one-row table
PrepareRecord(m) ==
    /\ ~last.called
    /\ CallOnCopy(m)

InitFeat ==
    /\ df \in SampleTables
    /\ prev = NoCall
    /\ last = NoCall
    /\ RiskIdle
    /\ ServeIdle
    /\ OfflineIdle

NextFeat ==
    \/ \E t \in SampleTables, m \in Mappings : CallOnFresh(t, m)
    \/ \E m \in Mappings : CallAgain(m)
    \/ \E m \in Mappings : CallOnCopy(m)

SpecFeat == InitFeat /\ [][NextFeat]_vars

InitRecord ==
    /\ df \in RecordTables
    /\ prev = NoCall
    /\ last = NoCall
    /\ RiskIdle
    /\ ServeIdle
    /\ OfflineIdle

NextRecord == \E m \in Mappings : PrepareRecord(m)

SpecRecord == InitRecord /\ [][NextRecord]_vars

---------------------------------------------------------------------------
(* Risk tiers and result summaries *)

\* RISK_THRESHOLDS["HIGH"] = 0.7, in thousandths
RISK_HIGH == 700
\* RISK_THRESHOLDS["MEDIUM"] = 0.3, in thousandths
RISK_MEDIUM == 300
\* bins=[0, 0.3, 0.7, 1.0] of the web handler's pd.cut, in thousandths
CutBins == <<0, 300, 700, 1000>>
CutLabels == <<"Low", "Medium", "High">>

\* variant of RiskLevel: the high threshold itself counts as High
RiskLevelInclusive(p) ==
    IF p >= RISK_HIGH THEN "High"
    ELSE IF p > RISK_MEDIUM THEN "Medium" ELSE "Low"
\* ml-predictor.py 365-369: the tier of one probability
RiskLevel(p) ==
    IF p > RISK_HIGH THEN "High"
    ELSE IF p > RISK_MEDIUM THEN "Medium" ELSE "Low"

\* pd.cut(p, bins, labels) with the default right=True, include_lowest=False:
\* the label of the interval (bins[k], bins[k+1]] that holds p, else NaN
PdCut(p) ==
    IF \E k \in 1..Len(CutLabels) : p > CutBins[k] /\ p <= CutBins[k + 1]
    THEN CutLabels[CHOOSE k \in 1..Len(CutLabels) :
                       p > CutBins[k] /\ p <= CutBins[k + 1]]
    ELSE NA

RECURSIVE SeqSum(_)
SeqSum(s) == IF s = <<>> THEN 0 ELSE s[1] + SeqSum(Tail(s))

\* ndarray.mean(), rounded down to thousandths; NaN for an empty array
Mean(s) == IF s = <<>> THEN NaN ELSE SeqSum(s) \div Len(s)

\* variant of HighRiskCases: counts from the medium threshold
HighRiskFromMedium(probabilities) ==
    Cardinality({i \in 1..Len(probabilities) : probabilities[i] > RISK_MEDIUM})
\* ml-predictor.py 376-378: sum(1 for p in probabilities if p > HIGH)
HighRiskCases(probabilities) ==
    Cardinality({i \in 1..Len(probabilities) : probabilities[i] > RISK_HIGH})

\* ml-predictor.py 360-383: the results built from the classifier's output
BuildResults(predictions, probabilities, source_key) ==
    [predictions |-> predictions,
     probabilities |-> probabilities,
     risk_levels |-> [i \in 1..Len(probabilities) |-> RiskLevel(probabilities[i])],
     summary |-> [total_cases |-> Len(predictions),
                  predicted_arrests |-> SeqSum(predictions),
                  avg_probability |-> Mean(probabilities),
                  high_risk_cases |-> HighRiskCases(probabilities)],
     source |-> source_key]

\* predict-api.py 79-108: the result table and the summary of the web handler
WebResults(predictions, probabilities) ==
    LET risk_level == [i \in 1..Len(probabilities) |-> PdCut(probabilities[i])]
    IN  [arrest_prediction |-> predictions,
         arrest_probability |-> probabilities,
         risk_level |-> risk_level,
         total_cases |-> Len(predictions),
         predicted_arrests |-> SeqSum(predictions),
         avg_probability |-> Mean(probabilities),
         high_risk_cases |->
             Cardinality({i \in 1..Len(risk_level) : risk_level[i] = "High"})]

Labels(sc) == [i \in 1..Len(sc) |-> sc[i][1]]
Probas(sc) == [i \in 1..Len(sc) |-> sc[i][2]]

\* the probabilities the batches are drawn from: both ends, the thresholds
\* and their neighbours, and the values the specification names
SampleProbabilities ==
    {0, 1, 100, 299, 300, 301, 500, 699, 700, 701, 750, 999, 1000}
ScoredBatches == SeqsUpTo({0, 1} \X SampleProbabilities, MaxBatch) \ {<<>>}

\* the serverless handler builds its results from the classifier's output
BuildLambdaResults ==
    /\ ~lam.built
    /\ lam' = [built |-> TRUE,
               results |-> BuildResults(Labels(scores), Probas(scores), "api_request")]
    /\ UNCHANGED <<scores, web, featVars, serveVars, offlineVars>>

\* the web upload handler builds its results from the same output
BuildWebResults ==
    /\ ~web.built
    /\ web' = [built |-> TRUE,
               results |-> WebResults(Labels(scores), Probas(scores))]
    /\ UNCHANGED <<scores, lam, featVars, serveVars, offlineVars>>

InitRisk ==
    /\ scores \in ScoredBatches
    /\ lam = NoResults
    /\ web = NoResults
    /\ FeatIdle
    /\ ServeIdle
    /\ OfflineIdle

NextRisk == BuildLambdaResults \/ BuildWebResults

SpecRisk == InitRisk /\ [][NextRisk]_vars

---------------------------------------------------------------------------
(* Configuration (chicago_crimes/config.py, lambda/config.py) *)

\* variant of REMOVE_COLS: district is on the removal list as well
REMOVE_COLSWithDistrict ==
    {"id", "updated_on", "block", "iucr", "beat", "description", "latitude",
     "longitude", "location", "year", "y_coordinate", "x_coordinate",
     "case_number", "district"}

REMOVE_COLS == {"id", "updated_on", "block", "iucr", "beat", "description",
                "latitude", "longitude", "location", "year", "y_coordinate",
                "x_coordinate", "case_number"}

FEATURE_COLS == {"primary_type", "domestic", "district", "ward",
                 "community_area", "fbi_code", "hour", "day_of_week", "month",
                 "quarter", "is_night", "is_weekend", "location_group"}

\* ERROR_MESSAGES of lambda/config.py, without the formatted detail
CORRUPTED_GZIP == "Corrupted gzip file"
DECOMPRESS_FAILED == "Failed to decompress gzip file"
FILE_PROCESSING_FAILED == "File processing failed"

---------------------------------------------------------------------------
(* Uploaded files *)

(* A file is [encoding, cols, rows]: how its bytes read ("plain" CSV text,  *)
(* a "gzip" of CSV text, a gzip whose check sum fails, bytes that are       *)
(* neither, or no object at all), the header and the rows; a date cell is  *)
(* the text of the file.  A name is [stem, ext].                           *)

Garbage(encoding) == [encoding |-> encoding, cols |-> {}, rows |-> <<>>]

\* the text of a date no calendar has (2023-02-30 09:00)
BadDateText == <<2, 30, 9>>

\* a file with every column, its rows dated by the texts ds
CsvFile(encoding, cols, ds) ==
    [encoding |-> encoding, cols |-> cols,
     rows |-> [i \in 1..Len(ds) |->
                 [c \in cols |->
                     CASE c \in RawCols -> RawRow(ds[i], "STREET")[c]
                       [] c = "arrest" -> TRUE
                       [] c = "block" -> "001XX N STATE ST"
                       [] OTHER -> 1]]]

GoodDates == <<<<1, 7, 18>>, <<6, 14, 9>>>>

\* the uploads of the handler specification
Uploads ==
    {CsvFile("plain", RawCols, GoodDates),
     CsvFile("gzip", RawCols, GoodDates),
     CsvFile("plain", RawCols, <<BadDateText, <<1, 7, 18>>>>),
     CsvFile("gzip", RawCols, <<BadDateText>>),
     CsvFile("gzip", RawCols \ {"date"}, GoodDates),
     CsvFile("gzip", RawCols \cup {"block", "id", "arrest"}, <<<<1, 7, 18>>>>),
     Garbage("gzip_crc"), Garbage("garbage")}

\* whether the date field of a file is absent, or holds a text that is no
\* timestamp
HasBadDate(file) ==
    \/ "date" \notin file.cols
    \/ \E i \in 1..Len(file.rows) :
          file.rows[i]["date"] # <<>> /\ ~IsTimestamp(file.rows[i]["date"])

\* pd.read_csv(BytesIO(content), compression="gzip") and
\* pd.read_csv(StringIO(content.decode("utf-8"))): the table with its dates
\* as texts, or the error
ReadCsv(file, gz) ==
    IF gz /\ file.encoding = "gzip_crc"
    THEN [ok |-> FALSE, err |-> "BadGzipFile: CRC check failed", df |-> EmptyTable]
    ELSE IF gz /\ file.encoding # "gzip"
    THEN [ok |-> FALSE, err |-> "BadGzipFile: Not a gzipped file", df |-> EmptyTable]
    ELSE IF ~gz /\ file.encoding # "plain"
    THEN [ok |-> FALSE, err |-> "UnicodeDecodeError", df |-> EmptyTable]
    ELSE [ok |-> TRUE, err |-> "",
          df |-> [cols |-> file.cols, dtdate |-> FALSE, rows |-> file.rows]]

\* ml-predictor.py 249-250: df["date"] = pd.to_datetime(df["date"],
\* errors="coerce") if the column exists
CoerceDates(t) ==
    IF "date" \in t.cols
    THEN [SetCol(t, "date",
                 [i \in 1..Len(t.rows) |-> ToDatetimeCoerce(Col(t, "date")[i])])
            EXCEPT !.dtdate = TRUE]
    ELSE t

\* read_csv(..., parse_dates=['date']): a missing date column is a
\* ValueError; a column with a text that is no timestamp stays a column of
\* texts
ParseDates(t) ==
    IF "date" \notin t.cols
    THEN [ok |-> FALSE, err |-> "ValueError: Missing column provided to 'parse_dates'",
          df |-> t]
    ELSE IF \A i \in 1..Len(t.rows) :
                Col(t, "date")[i] = <<>> \/ IsTimestamp(Col(t, "date")[i])
    THEN [ok |-> TRUE, err |-> "", df |-> [t EXCEPT !.dtdate = TRUE]]
    ELSE [ok |-> TRUE, err |-> "", df |-> t]

\* DataFrame.dropna(): the rows without a null cell
DropNa(t) ==
    LET full(r) == \A c \in t.cols : ~IsNull(c, r[c])
    IN  [t EXCEPT !.rows = SelectSeq(t.rows, full)]

\* df[cs]: the columns cs, a KeyError when one is not there
SelectCols(t, cs) == DropCols(t, t.cols \ cs)

---------------------------------------------------------------------------
(* The model handle and process_predictions (ml-predictor.py, 169-180 and *)
(* 344-383)                                                                *)

\* the classifiers a pickle may hold, each the <<label, probability>> it
\* answers by row
Classifiers ==
    {[i \in 1..MaxRows |-> IF i % 2 = 1 THEN <<1, 750>> ELSE <<0, 100>>],
     [i \in 1..MaxRows |-> <<0, 300>>]}

\* load_model(): the pickle on disk, FileNotFoundError without one
load_model(pkl) ==
    IF pkl.loaded THEN [ok |-> TRUE, pipeline |-> pkl]
    ELSE [ok |-> FALSE, pipeline |-> NoModel]

\* variant of get_model: the pickle is read on every call
get_modelReloading(handle, pkl) == load_model(pkl)

\* get_model(): the handle after the call; the pickle is read only when the
\* handle is None
get_model(handle, pkl) ==
    IF ~handle.loaded THEN load_model(pkl)
    ELSE [ok |-> TRUE, pipeline |-> handle]

\* lines 352-358 and 70-76 of predict-api.py: the feature dictionaries are
\* the rows of every column but arrest and id; DictVectorizer.transform
\* raises ValueError on an empty list
Score(processed, clf) ==
    LET feature_cols == processed.cols \ {"arrest", "id"}
        n == Len(processed.rows)
    IN  IF n = 0
        THEN [ok |-> FALSE, err |-> "ValueError: Sample sequence X is empty",
              fed |-> {}, scores |-> <<>>]
        ELSE [ok |-> TRUE, err |-> "", fed |-> feature_cols,
              scores |-> [i \in 1..n |-> clf[i]]]

NoPrediction(err, handle) ==
    [ok |-> FALSE, err |-> err, pipeline |-> handle, fed |-> {},
     results |-> NoResults]

\* lines 360-383: the results of a scored table
Predicted(scored, source_key, handle) ==
    IF ~scored.ok THEN NoPrediction(scored.err, handle)
    ELSE [ok |-> TRUE, err |-> "", pipeline |-> handle, fed |-> scored.fed,
          results |-> BuildResults(Labels(scored.scores), Probas(scored.scores),
                                   source_key)]

\* lines 348-358 on the outcome of prepare_features and of get_model
PredictPrepared(prepared, source_key, handle, model) ==
    IF ~prepared.ok THEN NoPrediction(prepared.err, handle)
    ELSE IF ~model.ok THEN NoPrediction("FileNotFoundError", handle)
    ELSE Predicted(Score(DropNa(prepared.ret), model.pipeline.clf), source_key,
                   model.pipeline)

\* process_predictions(df, source_key) with the model handle and the pickle
\* as they are
process_predictions(d, source_key, handle, pkl) ==
    PredictPrepared(prepare_features(d, MockMapping), source_key, handle,
                    get_model(handle, pkl))

---------------------------------------------------------------------------
(* The result table and the storage-event handler (ml-predictor.py,       *)
(* 183-264 and 386-420)                                                    *)

\* dict.get(field, default)
Get(item, field, default) ==
    IF field \in DOMAIN item THEN item[field] ELSE default

S3Keys == {[stem |-> "uploads/a", ext |-> ".csv"],
           [stem |-> "uploads/b", ext |-> ".csv.gz"]}

\* no object under the key: get_object raises
NoObject == Garbage("missing")

\* variant of CompletedItem: the average is left out of the item
CompletedItemNoAverage(file_key, summary) ==
    [file_key |-> file_key,
     total_cases |-> summary.total_cases,
     predicted_arrests |-> summary.predicted_arrests,
     high_risk_cases |-> summary.high_risk_cases,
     processed_at |-> "now",
     status |-> "completed"]
\* store_results, 392-402: the item of a processed file
CompletedItem(file_key, summary) ==
    [file_key |-> file_key,
     total_cases |-> summary.total_cases,
     predicted_arrests |-> summary.predicted_arrests,
     avg_probability |-> summary.avg_probability,
     high_risk_cases |-> summary.high_risk_cases,
     processed_at |-> "now",
     status |-> "completed"]

\* store_error_result, 413-420: the item of a file that could not be read
ErrorItem(file_key, error_message) ==
    [file_key |-> file_key,
     error_message |-> error_message,
     processed_at |-> "now",
     status |-> "error"]

\* lines 232-256: the table read from the object's bytes, or the message of
\* the error item
ReadUpload(key, file) ==
    LET rd == ReadCsv(file, key.ext = ".csv.gz")
    IN  IF rd.ok THEN [ok |-> TRUE, msg |-> "", df |-> CoerceDates(rd.df)]
        ELSE IF key.ext # ".csv.gz"
        THEN [ok |-> FALSE, msg |-> FILE_PROCESSING_FAILED, df |-> EmptyTable]
        ELSE IF rd.err = "BadGzipFile: CRC check failed"
        THEN [ok |-> FALSE, msg |-> CORRUPTED_GZIP, df |-> EmptyTable]
        ELSE [ok |-> FALSE, msg |-> DECOMPRESS_FAILED, df |-> EmptyTable]

\* an exception leaves handle_s3_event: lambda_handler answers 500 (207-216)
Raised(st, err) ==
    [st |-> st, statusCode |-> 500, outcome |-> "raised", error |-> err]

\* handle_s3_event from record i on. st is [store, pipeline, notified, done,
\* effects]: the table, the handle, the keys a notification went out for, the
\* results produced so far and the calls made to the table and to the mail
\* service, in their order; env says which service is down meanwhile
RECURSIVE handle_s3_event(_, _, _, _, _)

\* table.put_item(Item={"file_key": ..., "status": ...}) as a call made
PutItem(file_key, status) == [call |-> "put_item", key |-> file_key, status |-> status]

\* send_notification(summary, file_key): ses_client.send_email is called once
\* and its failure is caught and printed
send_notification(effects, file_key, env) ==
    Append(effects, [call |-> "send_email", key |-> file_key,
                     sent |-> env # "ses_down"])

\* variant of Stored: the notification goes out before the item is put
StoredNotifiedFirst(st, rec, env, pp) ==
    [st EXCEPT
       !.pipeline = pp.pipeline,
       !.store = [k \in DOMAIN @ \cup {rec.key} |->
                    IF k = rec.key THEN CompletedItem(rec.key, pp.results.summary)
                    ELSE @[k]],
       !.notified = IF env = "ses_down" THEN @ ELSE Append(@, rec.key),
       !.effects = Append(send_notification(@, rec.key, env),
                          PutItem(rec.key, "completed")),
       !.done = Append(@, [file |-> rec.file, fed |-> pp.fed,
                           results |-> pp.results])]

\* variant of Stored: the item is merged into the one already under the key
StoredMerged(st, rec, env, pp) ==
    [st EXCEPT
       !.pipeline = pp.pipeline,
       !.store = [k \in DOMAIN @ \cup {rec.key} |->
                    IF k # rec.key THEN @[k]
                    ELSE IF k \notin DOMAIN @
                    THEN CompletedItem(rec.key, pp.results.summary)
                    ELSE [f \in DOMAIN @[k] \cup
                                DOMAIN CompletedItem(rec.key, pp.results.summary) |->
                            Get(CompletedItem(rec.key, pp.results.summary), f,
                                Get(@[k], f, ""))]],
       !.notified = IF env = "ses_down" THEN @ ELSE Append(@, rec.key),
       !.effects = send_notification(Append(@, PutItem(rec.key, "completed")),
                                     rec.key, env),
       !.done = Append(@, [file |-> rec.file, fed |-> pp.fed,
                           results |-> pp.results])]

\* store_results(results, key): the item is put, then the notification sent
\* (send_notification swallows its own failure)
Stored(st, rec, env, pp) ==
    [st EXCEPT
       !.pipeline = pp.pipeline,
       !.store = [k \in DOMAIN @ \cup {rec.key} |->
                    IF k = rec.key THEN CompletedItem(rec.key, pp.results.summary)
                    ELSE @[k]],
       !.notified = IF env = "ses_down" THEN @ ELSE Append(@, rec.key),
       !.effects = send_notification(Append(@, PutItem(rec.key, "completed")),
                                     rec.key, env),
       !.done = Append(@, [file |-> rec.file, fed |-> pp.fed,
                           results |-> pp.results])]

\* lines 258-262 on the outcome pp of process_predictions for record i
StoreRecord(records, i, st, env, pkl, pp) ==
    IF ~pp.ok THEN Raised([st EXCEPT !.pipeline = pp.pipeline], pp.err)
    ELSE IF env = "db_down"
    THEN Raised([st EXCEPT !.pipeline = pp.pipeline], "put_item failed")
    ELSE handle_s3_event(records, i + 1, Stored(st, records[i], env, pp), env, pkl)

\* variant of PredictRecord: after an unreadable file the loop goes on with
\* the next record
PredictRecordResumed(records, i, st, env, pkl, rd) ==
    IF records[i].file = NoObject THEN Raised(st, "NoSuchKey")
    ELSE IF ~rd.ok
    THEN IF env = "db_down" THEN Raised(st, "put_item failed")
         ELSE IF i = Len(records)
         THEN [st |-> [st EXCEPT
                         !.store = [k \in DOMAIN @ \cup {records[i].key} |->
                                      IF k = records[i].key
                                      THEN ErrorItem(records[i].key, rd.msg)
                                      ELSE @[k]],
                         !.effects = Append(@, PutItem(records[i].key, "error"))],
               statusCode |-> 500, outcome |-> "error", error |-> rd.msg]
         ELSE handle_s3_event(records, i + 1,
                  [st EXCEPT
                     !.store = [k \in DOMAIN @ \cup {records[i].key} |->
                                  IF k = records[i].key
                                  THEN ErrorItem(records[i].key, rd.msg)
                                  ELSE @[k]],
                     !.effects = Append(@, PutItem(records[i].key, "error"))], env, pkl)
    ELSE StoreRecord(records, i, st, env, pkl,
                     process_predictions(rd.df, records[i].key, st.pipeline, pkl))

\* lines 231-259 on the outcome rd of reading record i
PredictRecord(records, i, st, env, pkl, rd) ==
    IF records[i].file = NoObject THEN Raised(st, "NoSuchKey")
    ELSE IF ~rd.ok
    THEN IF env = "db_down" THEN Raised(st, "put_item failed")
         ELSE [st |-> [st EXCEPT
                         !.store = [k \in DOMAIN @ \cup {records[i].key} |->
                                      IF k = records[i].key
                                      THEN ErrorItem(records[i].key, rd.msg)
                                      ELSE @[k]],
                         !.effects = Append(@, PutItem(records[i].key, "error"))],
               statusCode |-> 500, outcome |-> "error", error |-> rd.msg]
    ELSE StoreRecord(records, i, st, env, pkl,
                     process_predictions(rd.df, records[i].key, st.pipeline, pkl))

handle_s3_event(records, i, st, env, pkl) ==
    IF i > Len(records)
    THEN [st |-> st, statusCode |-> 200, outcome |-> "completed", error |-> ""]
    ELSE PredictRecord(records, i, st, env, pkl,
                       ReadUpload(records[i].key, records[i].file))

S3Records == {[key |-> k, file |-> f] : k \in S3Keys, f \in Uploads \cup {NoObject}}
S3Events == SeqsUpTo(S3Records, MaxRecords) \ {<<>>}
Environments == {"ok", "db_down", "ses_down"}

\* lambda_handler on an event with "Records"
S3Event(records, env) ==
    LET r == handle_s3_event(records, 1,
                 [store |-> store, pipeline |-> pipeline, notified |-> <<>>,
                  done |-> <<>>, effects |-> <<>>], env, pickle)
    IN  /\ store' = r.st.store
        /\ pipeline' = r.st.pipeline
        /\ resp' = [handler |-> "s3", input |-> records,
                    statusCode |-> r.statusCode, outcome |-> r.outcome,
                    error |-> r.error, done |-> r.st.done,
                    notified |-> r.st.notified]
        /\ UNCHANGED <<pickle, featVars, riskVars, offlineVars>>

---------------------------------------------------------------------------
(* Direct prediction (ml-predictor.py, 289-307 and 332-341) *)

\* the JSON bodies: the rows of a plain file as a list of objects, or a
\* text that is no JSON
PredictBodies == {f \in Uploads : f.encoding \in {"plain", "garbage"}}

\* lambda_handler on POST /predict
ApiPredict(body) ==
    LET d == [cols |-> body.cols, dtdate |-> FALSE, rows |-> body.rows]
        pp == process_predictions(d, "api_request", pipeline, pickle)
    IN  /\ resp' =
              IF body.encoding = "garbage"
              THEN [handler |-> "predict", input |-> body, statusCode |-> 500,
                    outcome |-> "error", error |-> "JSONDecodeError", done |-> <<>>]
              ELSE IF ~pp.ok
              THEN [handler |-> "predict", input |-> body, statusCode |-> 500,
                    outcome |-> "error", error |-> pp.err, done |-> <<>>]
              ELSE [handler |-> "predict", input |-> body, statusCode |-> 200,
                    outcome |-> "completed", error |-> "",
                    done |-> <<[file |-> body, fed |-> pp.fed,
                                results |-> pp.results]>>]
        /\ pipeline' = IF body.encoding = "garbage" THEN pipeline ELSE pp.pipeline
        /\ UNCHANGED <<store, pickle, featVars, riskVars, offlineVars>>

---------------------------------------------------------------------------
(* The web upload handler (predict-api.py, 44-126) *)

UploadNames == {[stem |-> "crimes", ext |-> e] : e \in {".csv", ".csv.gz", ".txt"}}

\* the exceptions line 121 turns into a rendered error
Rendered == {"ValueError", "KeyError", "FileNotFoundError", "UnicodeDecodeError"}

ErrorClass(err) ==
    CASE err \in {"KeyError: 'date'", "KeyError: 'location_description'"} -> "KeyError"
      [] err \in {"ValueError: Missing column provided to 'parse_dates'",
                  "ValueError: Sample sequence X is empty"} -> "ValueError"
      [] err = "AttributeError: .dt" -> "AttributeError"
      [] err \in {"BadGzipFile: CRC check failed",
                  "BadGzipFile: Not a gzipped file"} -> "OSError"
      [] OTHER -> err

\* the outcome of upload_predict when err is raised inside its try block
WebFailure(name, file, err) ==
    [handler |-> "web", input |-> file,
     statusCode |-> IF ErrorClass(err) \in Rendered THEN 200 ELSE 500,
     outcome |-> IF ErrorClass(err) \in Rendered THEN "error" ELSE "raised",
     error |-> err, done |-> <<>>, written |-> {}]

\* upload_predict on a file uploaded under a name; written is the
\* prediction file saved to the data directory
UploadPredict(name, file) ==
    LET rd == ReadCsv(file, name.ext = ".csv.gz")
        parsed == ParseDates(rd.df)
        prepared == prepare_features(parsed.df, MockMapping)
        processed_df == DropNa(prepared.ret)
        model == load_model(pickle)
        scored == Score(processed_df, model.pipeline.clf)
        results == WebResults(Labels(scored.scores), Probas(scored.scores))
        failure ==
            IF ~rd.ok THEN rd.err
            ELSE IF ~parsed.ok THEN parsed.err
            ELSE IF ~prepared.ok THEN prepared.err
            ELSE IF ~model.ok THEN "FileNotFoundError"
            ELSE IF ~scored.ok THEN scored.err
            ELSE ""
    IN  /\ resp' =
              IF name.ext \notin {".csv", ".csv.gz"}
              THEN [handler |-> "web", input |-> file, statusCode |-> 400,
                    outcome |-> "rejected", error |-> "File must be a CSV",
                    done |-> <<>>, written |-> {}]
              ELSE IF failure # "" THEN WebFailure(name, file, failure)
              ELSE [handler |-> "web", input |-> file, statusCode |-> 200,
                    outcome |-> "completed", error |-> "",
                    done |-> <<[file |-> file, fed |-> scored.fed,
                                results |-> results]>>,
                    written |-> {name.stem}]
        /\ UNCHANGED <<store, pipeline, pickle, featVars, riskVars, offlineVars>>

---------------------------------------------------------------------------
(* Training (training/train_model.py, 7-43; data_loader.py, 12-17, 51-58; *)
(* feature_engineer.py, 7-11)                                              *)

\* create_dataset: the columns outside REMOVE_COLS are loaded with the date
\* parsed, prepared and cleared of rows with a null
create_dataset(file) ==
    LET rd == ReadCsv(file, TRUE)
        include_cols == rd.df.cols \ REMOVE_COLS
        parsed == ParseDates(SelectCols(rd.df, include_cols))
        prepared == prepare_features(parsed.df, MockMapping)
    IN  IF ~rd.ok THEN [ok |-> FALSE, err |-> rd.err, df |-> EmptyTable]
        ELSE IF ~parsed.ok THEN [ok |-> FALSE, err |-> parsed.err, df |-> EmptyTable]
        ELSE IF ~prepared.ok
        THEN [ok |-> FALSE, err |-> prepared.err, df |-> EmptyTable]
        ELSE [ok |-> TRUE, err |-> "", df |-> DropNa(prepared.ret)]

\* variant of create_features_target: X is every column but the target
create_features_targetRest(d) ==
    IF ~(FEATURE_COLS \subseteq d.cols) \/ "arrest" \notin d.cols
    THEN [ok |-> FALSE, err |-> "KeyError: columns", X |-> EmptyTable, y |-> <<>>,
          name |-> ""]
    ELSE [ok |-> TRUE, err |-> "", X |-> DropCols(d, {"arrest"}),
          y |-> [i \in 1..Len(d.rows) |-> BoolToInt(Col(d, "arrest")[i])],
          name |-> "arrest"]

\* create_features_target: X = df[FEATURE_COLS], y = df["arrest"].astype("int"),
\* a Series that keeps the column's name
create_features_target(d) ==
    IF ~(FEATURE_COLS \subseteq d.cols) \/ "arrest" \notin d.cols
    THEN [ok |-> FALSE, err |-> "KeyError: columns", X |-> EmptyTable, y |-> <<>>,
          name |-> ""]
    ELSE [ok |-> TRUE, err |-> "", X |-> SelectCols(d, FEATURE_COLS),
          y |-> [i \in 1..Len(d.rows) |-> BoolToInt(Col(d, "arrest")[i])],
          name |-> "arrest"]

\* main() of train_model.py up to save_model, on the training file; clf is
\* the classifier the fit produces
TrainModel(file, clf) ==
    LET ds == create_dataset(file)
        xy == create_features_target(ds.df)
        failure ==
            IF ~ds.ok THEN ds.err
            ELSE IF ~xy.ok THEN xy.err
            ELSE IF Len(xy.X.rows) = 0 THEN "ValueError: Sample sequence X is empty"
            ELSE ""
    IN  /\ resp' =
              IF failure # ""
              THEN [handler |-> "train", input |-> file, statusCode |-> 1,
                    outcome |-> "raised", error |-> failure, done |-> <<>>]
              ELSE [handler |-> "train", input |-> file, statusCode |-> 0,
                    outcome |-> "completed", error |-> "",
                    done |-> <<[file |-> file, fed |-> xy.X.cols,
                                results |-> NoResults]>>]
        /\ pickle' = IF failure = "" THEN [loaded |-> TRUE, clf |-> clf] ELSE pickle
        /\ UNCHANGED <<store, pipeline, featVars, riskVars, offlineVars>>

---------------------------------------------------------------------------
(* The handler specification *)

InitServe ==
    /\ store = <<>>
    /\ pipeline = NoModel
    /\ pickle \in {NoModel} \cup {[loaded |-> TRUE, clf |-> c] : c \in Classifiers}
    /\ resp = NoResponse
    /\ FeatIdle
    /\ RiskIdle
    /\ OfflineIdle

NextServe ==
    \/ \E e \in S3Events, env \in Environments : S3Event(e, env)
    \/ \E b \in PredictBodies : ApiPredict(b)
    \/ \E n \in UploadNames, f \in Uploads : UploadPredict(n, f)
    \/ \E f \in Uploads, clf \in Classifiers : TrainModel(f, clf)

SpecServe == InitServe /\ [][NextServe]_vars

---------------------------------------------------------------------------
(* lambda_handler on every kind of event (ml-predictor.py, 183-341 and    *)
(* 423-540). A path is the sequence of its segments: "/prod/health" is    *)
(* <<"prod", "health">>, "/get-results/" is <<"get-results", "">>, and a   *)
(* file key in a path is its stem followed by its extension                *)

\* config.py 42-47 and 56-57
UPLOAD_URL == <<"get-upload-url">>
RESULTS_PREFIX == "get-results"
PREDICT == <<"predict">>
HEALTH == <<"health">>
INVALID_EVENT == "Invalid event type"
NOT_FOUND == "Not found"

\* the empty file key
EmptyKey == [stem |-> "", ext |-> ""]
\* no summary in an answer
NoSummary == [total_cases |-> NaN, predicted_arrests |-> NaN,
              avg_probability |-> NaN, high_risk_cases |-> NaN]

\* lines 273-274 and 461-462: path.startswith("/prod/") and path[5:]
StripProd(path) ==
    IF Len(path) >= 2 /\ path[1] = "prod" THEN Tail(path) ELSE path

\* variant of RoutePath: the stage prefix is left on the path
RoutePathAsIs(event) ==
    IF event.proxy # <<>> THEN event.proxy ELSE event.path

\* lines 271-280: the path the routes are matched against
RoutePath(event) ==
    IF Len(event.path) >= 2 /\ event.path[1] = "prod" THEN Tail(event.path)
    ELSE IF event.proxy # <<>> THEN event.proxy
    ELSE event.path

\* path.startswith("/get-results/")
IsResultsPath(path) == Len(path) >= 2 /\ path[1] = RESULTS_PREFIX

\* lines 465-469: unquote(path[13:]), or the "key" path parameter, which no
\* event here carries
FileKeyOf(path) ==
    IF ~IsResultsPath(path) THEN EmptyKey
    ELSE IF Len(path) = 2 THEN [stem |-> path[2], ext |-> ""]
    ELSE [stem |-> path[2], ext |-> path[3]]

\* what a handler returns, with the process state st it leaves
Answer(st, route, statusCode, error, status, summary, storeRead) ==
    [st |-> st, route |-> route, statusCode |-> statusCode, error |-> error,
     status |-> status, summary |-> summary, storeRead |-> storeRead]

\* variant of Caught: the exception leaves the handler, no response is made
Propagated(st, route, err) == Answer(st, route, 0, "", "raised", NoSummary, FALSE)
\* lines 332-341: an exception raised under handle_api_request is answered
\* with 500 and its message
Caught(st, route, err) == Answer(st, route, 500, err, "raised", NoSummary, FALSE)

\* variant of ItemAnswer: an error item is answered with the default text
ItemAnswerDefaultText(st, item) ==
    IF Get(item, "status", "") = "error"
    THEN Answer(st, "results", 400, "Processing failed", "error", NoSummary, TRUE)
    ELSE IF ~(DOMAIN NoSummary \subseteq DOMAIN item)
    THEN Caught(st, "results", "KeyError")
    ELSE Answer(st, "results", 200, "", "completed",
                [f \in DOMAIN NoSummary |-> item[f]], TRUE)

\* lines 488-529: the answer made from the stored item; a completed item
\* without one of the summary fields is a KeyError
ItemAnswer(st, item) ==
    IF Get(item, "status", "") = "error"
    THEN Answer(st, "results", 400, Get(item, "error_message", "Processing failed"),
                "error", NoSummary, TRUE)
    ELSE IF ~(DOMAIN NoSummary \subseteq DOMAIN item)
    THEN Caught(st, "results", "KeyError")
    ELSE Answer(st, "results", 200, "", "completed",
                [f \in DOMAIN NoSummary |-> item[f]], TRUE)

\* handle_get_results, 455-540
handle_get_results(event, st, env) ==
    LET file_key == FileKeyOf(StripProd(event.path))
    IN  IF file_key = EmptyKey
        THEN Answer(st, "results", 400, "Missing file key parameter", "",
                    NoSummary, FALSE)
        ELSE IF env = "db_down"
        THEN Caught(st, "results", "get_item failed")
        ELSE IF file_key \notin DOMAIN st.store
        THEN Answer(st, "results", 404, "", "processing", NoSummary, TRUE)
        ELSE ItemAnswer(st, st.store[file_key])

\* variant of handle_get_upload_url: an item with status "processing" is put
\* under the key that is issued
handle_get_upload_urlPlaceholder(event, st) ==
    IF event.body.encoding # "json" THEN Caught(st, "upload_url", "JSONDecodeError")
    ELSE IF "filename" \notin event.body.fields
    THEN Caught(st, "upload_url", "KeyError: 'filename'")
    ELSE Answer([st EXCEPT
                   !.store = [k \in DOMAIN @ \cup {[stem |-> "uploads/a", ext |-> ".csv"]} |->
                                IF k \in DOMAIN @ THEN @[k]
                                ELSE [file_key |-> k, processed_at |-> "now",
                                      status |-> "processing"]]],
                "upload_url", 200, "", "", NoSummary, FALSE)

\* handle_get_upload_url, 423-452: the body must be JSON with a filename
handle_get_upload_url(event, st) ==
    IF event.body.encoding # "json" THEN Caught(st, "upload_url", "JSONDecodeError")
    ELSE IF "filename" \notin event.body.fields
    THEN Caught(st, "upload_url", "KeyError: 'filename'")
    ELSE Answer(st, "upload_url", 200, "", "", NoSummary, FALSE)

\* lines 289-307: POST /predict on the outcome pp of process_predictions
PredictAnswer(st, pp) ==
    IF ~pp.ok THEN Caught([st EXCEPT !.pipeline = pp.pipeline], "predict", pp.err)
    ELSE Answer([st EXCEPT !.pipeline = pp.pipeline], "predict", 200, "", "",
                pp.results.summary, FALSE)

\* lines 289-298: the body is parsed and made a DataFrame
PredictRoute(event, st, pkl) ==
    IF event.body.encoding # "json"
    THEN Caught(st, "predict", "JSONDecodeError")
    ELSE PredictAnswer(st,
             process_predictions([cols |-> event.body.fields, dtdate |-> FALSE,
                                  rows |-> event.body.rows],
                                 "api_request", st.pipeline, pkl))

\* handle_api_request, 267-341
handle_api_request(event, st, env, pkl) ==
    LET path == RoutePath(event)
        method == event.httpMethod
    IN  IF method = "POST" /\ path = UPLOAD_URL THEN handle_get_upload_url(event, st)
        ELSE IF method = "GET" /\ IsResultsPath(path)
        THEN handle_get_results(event, st, env)
        ELSE IF method = "POST" /\ path = PREDICT THEN PredictRoute(event, st, pkl)
        ELSE IF method = "OPTIONS"
        THEN Answer(st, "options", 200, "", "", NoSummary, FALSE)
        ELSE IF method = "GET" /\ path = HEALTH
        THEN Answer(st, "health", 200, "", "healthy", NoSummary, FALSE)
        ELSE Answer(st, "not_found", 404, NOT_FOUND, "", NoSummary, FALSE)

\* lines 192 and 207-216: what lambda_handler returns for the outcome r of
\* handle_s3_event
S3Answer(r) ==
    Answer(r.st, "s3", r.statusCode, r.error, r.outcome, NoSummary, FALSE)

\* variant of lambda_handler: "httpMethod" is looked for before "Records"
lambda_handlerMethodFirst(event, st, env, pkl) ==
    IF event.hasMethod THEN handle_api_request(event, st, env, pkl)
    ELSE IF event.hasRecords
    THEN S3Answer(handle_s3_event(event.Records, 1, st, env, pkl))
    ELSE Answer(st, "invalid", 400, INVALID_EVENT, "", NoSummary, FALSE)

\* lambda_handler, 183-216
lambda_handler(event, st, env, pkl) ==
    IF event.hasRecords
    THEN S3Answer(handle_s3_event(event.Records, 1, st, env, pkl))
    ELSE IF event.hasMethod THEN handle_api_request(event, st, env, pkl)
    ELSE Answer(st, "invalid", 400, INVALID_EVENT, "", NoSummary, FALSE)

\* the request bodies: none, a prediction request (its date is a text), an
\* upload request, and a text that is no JSON
EmptyBody == [encoding |-> "json", fields |-> {}, rows |-> <<>>]
PredictBody == [encoding |-> "json", fields |-> RawCols,
                rows |-> <<RawRow(<<1, 7, 18>>, "STREET")>>]
UploadBody == [encoding |-> "json", fields |-> {"filename"}, rows |-> <<>>]
GarbageBody == [encoding |-> "garbage", fields |-> {}, rows |-> <<>>]

\* the storage records of the events: a good file and a file that is no
\* text under one key, a file that is no gzip and no object under the other
LambdaRecords ==
    {[key |-> [stem |-> "uploads/a", ext |-> ".csv"],
      file |-> CsvFile("plain", RawCols, GoodDates)],
     [key |-> [stem |-> "uploads/a", ext |-> ".csv"], file |-> Garbage("garbage")],
     [key |-> [stem |-> "uploads/b", ext |-> ".csv.gz"], file |-> Garbage("garbage")],
     [key |-> [stem |-> "uploads/b", ext |-> ".csv.gz"], file |-> NoObject]}

\* an event with "Records"; withMethod says whether it has "httpMethod" too
RecordsEvent(records, withMethod) ==
    [hasRecords |-> TRUE, Records |-> records, hasMethod |-> withMethod,
     httpMethod |-> "GET", path |-> HEALTH, proxy |-> <<>>, body |-> EmptyBody]

\* an API Gateway event
ApiEvent(method, path, proxy, body) ==
    [hasRecords |-> FALSE, Records |-> <<>>, hasMethod |-> TRUE,
     httpMethod |-> method, path |-> path, proxy |-> proxy, body |-> body]

\* an event with neither field
OtherEvent ==
    [hasRecords |-> FALSE, Records |-> <<>>, hasMethod |-> FALSE,
     httpMethod |-> "", path |-> <<>>, proxy |-> <<>>, body |-> EmptyBody]

Methods == {"GET", "POST", "OPTIONS", "DELETE"}

ApiPaths ==
    {UPLOAD_URL, PREDICT, HEALTH, <<"prod", "health">>, <<"prod", "predict">>,
     <<"prod", "get-upload-url">>, <<RESULTS_PREFIX>>, <<RESULTS_PREFIX, "">>,
     <<RESULTS_PREFIX, "uploads/a", ".csv">>,
     <<RESULTS_PREFIX, "uploads/b", ".csv.gz">>,
     <<"prod", RESULTS_PREFIX, "uploads/a", ".csv">>, <<"other">>, <<>>}

\* the body a client sends to a path
BodyFor(path) ==
    IF StripProd(path) = PREDICT THEN PredictBody
    ELSE IF StripProd(path) = UPLOAD_URL THEN UploadBody
    ELSE EmptyBody

LambdaEvents ==
    {RecordsEvent(rs, FALSE) : rs \in SeqsUpTo(LambdaRecords, MaxEventRecords)}
    \cup {RecordsEvent(<<r>>, TRUE) : r \in LambdaRecords}
    \cup {ApiEvent(m, p, <<>>, BodyFor(p)) : m \in Methods, p \in ApiPaths}
    \cup {ApiEvent("POST", p, <<>>, b) :
            p \in {UPLOAD_URL, PREDICT}, b \in {GarbageBody, EmptyBody}}
    \cup {ApiEvent("GET", <<"stage", "x">>, p, EmptyBody) :
            p \in {HEALTH, <<RESULTS_PREFIX, "uploads/a", ".csv">>}}
    \cup {OtherEvent}

\* the services that may be down while an event is handled
EnvironmentsOf(event) ==
    IF event.hasRecords THEN Environments
    ELSE IF event.httpMethod = "GET" THEN {"ok", "db_down"}
    ELSE {"ok"}

\* one invocation of lambda_handler in the process
Invoke(event, env) ==
    \E a \in {lambda_handler(event,
                 [store |-> store, pipeline |-> pipeline, notified |-> <<>>,
                  done |-> <<>>, effects |-> <<>>], env, pickle)} :
        /\ store' = a.st.store
        /\ pipeline' = a.st.pipeline
        /\ resp' = [handler |-> "lambda", event |-> event, route |-> a.route,
                    statusCode |-> a.statusCode, error |-> a.error,
                    status |-> a.status, summary |-> a.summary,
                    storeRead |-> a.storeRead, done |-> a.st.done,
                    notified |-> a.st.notified, effects |-> a.st.effects]
        /\ UNCHANGED <<pickle, featVars, riskVars, offlineVars>>

\* save_model (model_trainer.py, 32-40): a newly trained pipeline replaces
\* the pickle on disk
SaveModel(clf) ==
    /\ pickle' = [loaded |-> TRUE, clf |-> clf]
    /\ UNCHANGED <<store, pipeline, resp, featVars, riskVars, offlineVars>>

InitLambda ==
    /\ store = <<>>
    /\ pipeline = NoModel
    /\ pickle = NoModel
    /\ resp = NoResponse
    /\ FeatIdle
    /\ RiskIdle
    /\ OfflineIdle

NextLambda ==
    \/ \E event \in LambdaEvents : \E env \in EnvironmentsOf(event) :
          Invoke(event, env)
    \/ \E clf \in Classifiers : SaveModel(clf)

SpecLambda == InitLambda /\ [][NextLambda]_vars

---------------------------------------------------------------------------
(* The training-side functions called on their own (feature_engineer.py,   *)
(* 7-19; data_loader.py, 12-17; model_trainer.py, 32-51)                   *)

\* the sample tables with an arrest column, with and without an id column
LabelledTables ==
    UNION {{SetCol(t, "arrest", a) :
               a \in {b \in SeqsUpTo({TRUE, FALSE}, MaxRows) : Len(b) = Len(t.rows)}} :
           t \in {u \in SampleTables : u.cols = RawCols}}
\* prepared tables, with the columns a training file carries besides; a
\* prepared table without the target; a table that was never prepared
SplitInputs ==
    {prepare_features(t, MockMapping).ret : t \in LabelledTables}
    \cup {SetCol(prepare_features(t, MockMapping).ret, "id",
                 [i \in 1..Len(t.rows) |-> 100 + i]) : t \in LabelledTables}
    \cup {prepare_features(t, MockMapping).ret :
            t \in {u \in SampleTables : u.cols = RawCols /\ Len(u.rows) = 1}}
    \cup {t \in LabelledTables : Len(t.rows) = 1}

\* a weight is the fraction <<numerator, denominator>>
RatLess(a, b) == a[1] * b[2] < b[1] * a[2]
RatEq(a, b) == a[1] * b[2] = b[1] * a[2]

\* the number of entries of y that are c
CountOf(y, c) == Cardinality({i \in 1..Len(y) : y[i] = c})

\* variant of compute_class_weights: each class is weighted by its frequency
compute_class_weightsFrequency(y) ==
    LET classes == {y[i] : i \in 1..Len(y)}
    IN  [c \in classes |-> <<Cardinality(classes) * CountOf(y, c), Len(y)>>]

\* compute_class_weights(y): classes = np.unique(y), the "balanced" weight
\* of a class is n_samples / (n_classes * its count), returned as a dict
compute_class_weights(y) ==
    LET classes == {y[i] : i \in 1..Len(y)}
    IN  [c \in classes |-> <<Len(y), Cardinality(classes) * CountOf(y, c)>>]

LabelVectors == SeqsUpTo({0, 1}, MaxLabels) \ {<<>>}

\* sample_weights = compute_class_weights(y)
ClassWeights(y) ==
    /\ train = NoTraining
    /\ train' = [op |-> "compute_class_weights", arg |-> y,
                 out |-> compute_class_weights(y)]
    /\ UNCHANGED <<disk, remote, extract, saved, featVars, riskVars, serveVars>>

\* model_path=None
None == "None"
\* MODEL_DIR / "xgb_model.pkl"
DefaultModelPath == "models/xgb_model.pkl"

\* pickle.dumps of an object with named parts: a header, the parts as
\* <<name, value>> one after the other, a stop mark
RECURSIVE DumpItems(_, _)
DumpItems(obj, keys) ==
    IF keys = {} THEN <<>>
    ELSE LET k == CHOOSE x \in keys : TRUE
         IN  <<<<k, obj[k]>>>> \o DumpItems(obj, keys \ {k})
Dumps(obj) == <<"PROTO">> \o DumpItems(obj, DOMAIN obj) \o <<"STOP">>

\* pickle.loads: the object rebuilt from its parts
Loads(bytes) ==
    LET items == SubSeq(bytes, 2, Len(bytes) - 1)
    IN  [k \in {items[i][1] : i \in 1..Len(items)} |->
            items[CHOOSE i \in 1..Len(items) : items[i][1] = k][2]]

\* variant of SavePath: the default file has another name
SavePathOther(model_path) ==
    IF model_path = None THEN "models/model.pkl" ELSE model_path

\* save_model, 34-35
SavePath(model_path) ==
    IF model_path = None THEN DefaultModelPath ELSE model_path
\* load_model, 45-46
LoadPath(model_path) ==
    IF model_path = None THEN DefaultModelPath ELSE model_path

\* save_model(pipeline, model_path): the files after the call; the file is
\* opened "wb", what it held is gone
save_model(files, obj, model_path) ==
    [f \in DOMAIN files \cup {SavePath(model_path)} |->
        IF f = SavePath(model_path) THEN Dumps(obj) ELSE files[f]]

\* load_model(model_path): the object, FileNotFoundError without the file
LoadModelAt(files, model_path) ==
    IF LoadPath(model_path) \notin DOMAIN files
    THEN [ok |-> FALSE, err |-> "FileNotFoundError", out |-> <<>>]
    ELSE [ok |-> TRUE, err |-> "", out |-> Loads(files[LoadPath(model_path)])]

\* the objects saved: the dictionaries of the tests and fitted pipelines
ModelObjects ==
    {[model_type |-> "xgb", version |-> "1.0"], [model_type |-> "xgb"]}
    \cup {[dictvectorizer |-> FEATURE_COLS, xgbclassifier |-> c] : c \in Classifiers}
ModelPaths == {None, DefaultModelPath, "tmp/test_model.pkl"}

\* save_model(obj, path)
SaveTo(obj, path) ==
    /\ disk' = save_model(disk, obj, path)
    /\ train' = [op |-> "save_model", arg |-> obj, path |-> path]
    /\ UNCHANGED <<remote, extract, saved, featVars, riskVars, serveVars>>

\* load_model(path)
LoadFrom(path) ==
    /\ train' = [op |-> "load_model", path |-> path, out |-> LoadModelAt(disk, path)]
    /\ UNCHANGED <<disk, remote, extract, saved, featVars, riskVars, serveVars>>

\* get_feature_columns(data_path) on a file with the given header: the
\* columns not in REMOVE_COLS, as a list in the order of the file
get_feature_columns(header) ==
    SelectSeq(header, LAMBDA col : col \notin REMOVE_COLS)

\* the header of the portal's data set, and short headers over a few of its
\* columns in every order
FullHeader ==
    <<"id", "case_number", "date", "block", "iucr", "primary_type",
      "description", "location_description", "arrest", "domestic", "beat",
      "district", "ward", "community_area", "fbi_code", "x_coordinate",
      "y_coordinate", "year", "updated_on", "latitude", "longitude", "location">>
HeaderCols == {"id", "date", "primary_type", "district", "block", "arrest", "year"}
Headers ==
    {FullHeader} \cup
    {h \in SeqsUpTo(HeaderCols, MaxHeader) :
        \A i, j \in 1..Len(h) : i # j => h[i] # h[j]}

\* include_cols = get_feature_columns(file)
FeatureColumns(header) ==
    /\ train = NoTraining
    /\ train' = [op |-> "get_feature_columns", arg |-> header,
                 out |-> get_feature_columns(header)]
    /\ UNCHANGED <<disk, remote, extract, saved, featVars, riskVars, serveVars>>

\* X, y = create_features_target(df), called first in its process as the
\* other functions without state are
SplitTable(t) ==
    /\ train = NoTraining
    /\ train' = [op |-> "create_features_target", arg |-> t,
                 out |-> create_features_target(t)]
    /\ UNCHANGED <<disk, remote, extract, saved, featVars, riskVars, serveVars>>

InitTrain ==
    /\ train = NoTraining
    /\ disk = <<>>
    /\ remote = <<>>
    /\ extract = NoExtract
    /\ saved = <<>>
    /\ FeatIdle
    /\ RiskIdle
    /\ ServeIdle

NextTrain ==
    \/ \E t \in SplitInputs : SplitTable(t)
    \/ \E y \in LabelVectors : ClassWeights(y)
    \/ \E obj \in ModelObjects, path \in ModelPaths : SaveTo(obj, path)
    \/ \E path \in ModelPaths : LoadFrom(path)
    \/ \E header \in Headers : FeatureColumns(header)

SpecTrain == InitTrain /\ [][NextTrain]_vars

---------------------------------------------------------------------------
(* The extraction script (scripts/extract_data.py, 37-91). remote is the   *)
(* number of rows the portal holds for each batch; a row is its position   *)
(* in the batch. extract is the script's position: the batch i, the offset, *)
(* the rows accumulated, the offsets requested for the batch so far, and   *)
(* for every finished batch what was requested and how its loop ended.     *)
(* saved is the sequence of files written.                                 *)

\* lines 38-42
batches == <<"train_2022_2023.csv", "val_2024.csv", "test_2025.csv">>

\* lines 49-51: the top of the for loop for batch i
BatchStart(i, history) ==
    [pc |-> "fetch", i |-> i, offset |-> 0, all_results |-> <<>>,
     requests |-> <<>>, history |-> history]

\* client.get(dataset_id, where=where, limit=limit, offset=offset) on a batch
\* of n rows
PageOf(n, offset) ==
    [j \in 1..(IF n - offset >= limit THEN limit
               ELSE IF n - offset > 0 THEN n - offset ELSE 0) |-> offset + j]

\* lines 55-72: a page is fetched and appended; a short page ends the loop
FetchPage ==
    /\ extract.pc = "fetch"
    /\ \E page_results \in {PageOf(remote[extract.i], extract.offset)} :
          extract' =
              [extract EXCEPT
                 !.all_results = @ \o page_results,
                 !.requests = Append(@, extract.offset),
                 !.pc = IF Len(page_results) < limit THEN "save" ELSE "fetch",
                 !.offset = IF Len(page_results) < limit THEN @ ELSE @ + limit,
                 !.history =
                     IF Len(page_results) < limit
                     THEN Append(@, [requests |-> Append(extract.requests, extract.offset),
                                     failed |-> FALSE])
                     ELSE @]
    /\ UNCHANGED <<remote, saved, train, disk, featVars, riskVars, serveVars>>

\* variant of FetchError: after the error the same page is asked for again
FetchErrorRetried ==
    /\ extract.pc = "fetch"
    /\ Len(extract.requests) <= MaxRemote
    /\ extract' = [extract EXCEPT !.requests = Append(@, extract.offset)]
    /\ UNCHANGED <<remote, saved, train, disk, featVars, riskVars, serveVars>>

\* lines 73-76: client.get raises; the loop is left, nothing is fetched again
FetchError ==
    /\ extract.pc = "fetch"
    /\ extract' =
          [extract EXCEPT
             !.requests = Append(@, extract.offset),
             !.pc = "save",
             !.history = Append(@, [requests |-> Append(extract.requests, extract.offset),
                                    failed |-> TRUE])]
    /\ UNCHANGED <<remote, saved, train, disk, featVars, riskVars, serveVars>>

\* lines 78-88: the accumulated rows are written to data/<filename>.gz and
\* the next batch begins, or the script ends
SaveBatch ==
    /\ extract.pc = "save"
    /\ saved' = Append(saved, [filepath |-> <<"data", batches[extract.i], ".gz">>,
                               rows |-> extract.all_results])
    /\ extract' = IF extract.i < Len(batches)
                  THEN BatchStart(extract.i + 1, extract.history)
                  ELSE [extract EXCEPT !.pc = "done"]
    /\ UNCHANGED <<remote, train, disk, featVars, riskVars, serveVars>>

InitExtract ==
    /\ remote \in [1..Len(batches) -> 0..MaxRemote]
    /\ extract = BatchStart(1, <<>>)
    /\ saved = <<>>
    /\ train = NoTraining
    /\ disk = <<>>
    /\ FeatIdle
    /\ RiskIdle
    /\ ServeIdle

NextExtract == FetchPage \/ FetchError \/ SaveBatch

SpecExtract == InitExtract /\ [][NextExtract]_vars

\* the script runs on: a statement that can be executed is executed
SpecExtractFair == SpecExtract /\ WF_vars(NextExtract)

---------------------------------------------------------------------------
(* Feature preparation: properties *)

\* C3: prepare_features sets is_night to 1 exactly when the hour of the
\* record's timestamp is in 18..23 or 0..5, to 0 for every hour in 6..17,
\* and never to anything but 0 or 1.
C3_NightFlag ==
    (last.called /\ last.ok) =>
        \A i \in 1..Len(last.arg.rows) :
            LET ts == last.arg.rows[i]["date"]
                f == last.ret.rows[i]["is_night"]
            IN  /\ f \in {0, 1}
                /\ (f = 1) <=> (ts # NaT /\ ts[3] \in (18..23) \cup (0..5))
                /\ (ts # NaT /\ ts[3] \in 6..17) => f = 0

\* a record of 18:00 has been prepared and flagged as night
C3_Witness ==
    /\ last.called /\ last.ok
    /\ last.arg.rows[1]["date"] # NaT
    /\ last.arg.rows[1]["date"][3] = 18
    /\ last.ret.rows[1]["is_night"] = 1

\* C4: prepare_features sets is_weekend to 1 exactly when the weekday of the
\* record's timestamp (Monday = 0 .. Sunday = 6) is at least 5, to 0
\* otherwise, and never to anything but 0 or 1.
C4_WeekendFlag ==
    (last.called /\ last.ok) =>
        \A i \in 1..Len(last.arg.rows) :
            LET ts == last.arg.rows[i]["date"]
                f == last.ret.rows[i]["is_weekend"]
            IN  /\ f \in {0, 1}
                /\ (f = 1) <=> (ts # NaT /\ DtWeekday(ts) \in {5, 6})
                /\ last.ret.rows[i]["day_of_week"] = DtWeekday(ts)

\* Saturday 2023-01-07 has been prepared and flagged as weekend
C4_Witness ==
    /\ last.called /\ last.ok
    /\ last.arg.rows[1]["date"] # NaT
    /\ last.arg.rows[1]["date"][1] = 1
    /\ last.arg.rows[1]["date"][2] = 7
    /\ last.ret.rows[1]["day_of_week"] = 5
    /\ last.ret.rows[1]["is_weekend"] = 1

\* C5: location_group is locationMapping[d] when the description d is a key
\* of the mapping and "Unknown/Other" when it is not (a missing description
\* included); it is never null.
C5_LocationGroup ==
    (last.called /\ last.ok) =>
        \A i \in 1..Len(last.arg.rows) :
            LET d == last.arg.rows[i]["location_description"]
                g == last.ret.rows[i]["location_group"]
            IN  /\ d \in DOMAIN last.map => g = last.map[d]
                /\ d \notin DOMAIN last.map => g = "Unknown/Other"
                /\ g # NA

\* a description that is no key of the mapping has fallen back
C5_Witness ==
    /\ last.called /\ last.ok
    /\ last.arg.rows[1]["location_description"] = "VACANT LOT"
    /\ last.ret.rows[1]["location_group"] = "Unknown/Other"

\* C6: two calls of prepare_features with equal mappings give equal feature
\* vectors for equal input records, whatever the tables the records are in
\* and whatever was called before; on equal tables they end alike.
C6_Deterministic ==
    (prev.called /\ last.called /\ prev.map = last.map) =>
        /\ prev.arg = last.arg =>
              (prev.ok = last.ok /\ prev.err = last.err /\ prev.ret = last.ret)
        /\ (prev.ok /\ last.ok) =>
              \A i \in 1..Len(prev.arg.rows), j \in 1..Len(last.arg.rows) :
                  prev.arg.rows[i] = last.arg.rows[j]
                      => prev.ret.rows[i] = last.ret.rows[j]

\* the same record has been prepared in two different tables
C6_Witness ==
    /\ prev.called /\ last.called /\ prev.ok /\ last.ok
    /\ prev.map = last.map
    /\ Len(prev.arg.rows) # Len(last.arg.rows)
    /\ \E i \in 1..Len(prev.arg.rows), j \in 1..Len(last.arg.rows) :
          /\ i # j
          /\ prev.arg.rows[i] = last.arg.rows[j]
          /\ prev.arg.rows[i]["location_description"] \notin DOMAIN last.map
          /\ prev.ret.rows[i] = last.ret.rows[j]

\* C7: prepare_features is pure: the table handed to it is unchanged by the
\* call, so a second call on the same object succeeds and returns what the
\* first call returned.
C7_Pure ==
    /\ (last.called /\ last.ok) => last.after = last.arg
    /\ (last.called /\ last.mode = "again" /\ prev.ok /\ prev.map = last.map)
          => (last.ok /\ last.ret = prev.ret)

\* C20: prepare_features returns a table with the rows of its input in the
\* same order, the columns hour, day_of_week, month, quarter, is_night,
\* is_weekend and location_group added, the columns date and
\* location_description removed, and every other input column present with
\* the values it had.
C20_ShapeKept ==
    (last.called /\ last.ok) =>
        LET a == last.arg
            r == last.ret
            kept == a.cols \ {"date", "location_description"}
        IN  /\ Len(r.rows) = Len(a.rows)
            /\ r.cols = kept \cup {"hour", "day_of_week", "month", "quarter",
                                   "is_night", "is_weekend", "location_group"}
            /\ \A i \in 1..Len(a.rows) :
                  /\ DOMAIN r.rows[i] = r.cols
                  /\ \A c \in kept : r.rows[i][c] = a.rows[i][c]
                  /\ r.rows[i]["hour"] = DtHour(a.rows[i]["date"])
                  /\ r.rows[i]["month"] = DtMonth(a.rows[i]["date"])

\* a table of two different rows, the first without a date, has been prepared
C20_Witness ==
    /\ last.called /\ last.ok
    /\ Len(last.arg.rows) = 2
    /\ last.arg.rows[1]["date"] = NaT
    /\ last.arg.rows[2]["date"] # NaT
    /\ Len(last.ret.rows) = 2
    /\ last.ret.rows[2]["hour"] = DtHour(last.arg.rows[2]["date"])
    /\ "date" \notin last.ret.cols

---------------------------------------------------------------------------
(* The training-side functions: properties *)

\* C21: create_features_target splits a prepared table into X and y with one
\* entry per input row each; X has exactly the columns of FEATURE_COLS,
\* with the input's values, and y is the arrest column, named "arrest", as
\* integers: 0 for False and 1 for True.
C21_Split ==
    (train.op = "create_features_target" /\ train.out.ok) =>
        LET d == train.arg
            X == train.out.X
            y == train.out.y
        IN  /\ Len(X.rows) = Len(d.rows) /\ Len(y) = Len(d.rows)
            /\ X.cols = FEATURE_COLS
            /\ "arrest" \notin X.cols
            /\ train.out.name = "arrest"
            /\ \A i \in 1..Len(d.rows) :
                  /\ DOMAIN X.rows[i] = FEATURE_COLS
                  /\ \A c \in FEATURE_COLS : X.rows[i][c] = d.rows[i][c]
                  /\ y[i] \in {0, 1}
                  /\ y[i] = 1 <=> d.rows[i]["arrest"] = TRUE

\* a prepared table with an id column and both outcomes has been split
C21_Witness ==
    /\ train.op = "create_features_target" /\ train.out.ok
    /\ "id" \in train.arg.cols
    /\ train.out.y = <<0, 1>>
    /\ "id" \notin train.out.X.cols

\* C22: for a label vector holding both classes, compute_class_weights
\* returns a mapping with exactly the keys 0 and 1, the weight of a class
\* being n / (2 * its count); so the less frequent class has the strictly
\* larger weight, and the weights are equal exactly when the counts are.
C22_Balanced ==
    (train.op = "compute_class_weights" /\ CountOf(train.arg, 0) > 0
                                        /\ CountOf(train.arg, 1) > 0) =>
        LET y == train.arg
            w == train.out
        IN  /\ DOMAIN w = {0, 1}
            /\ \A c \in {0, 1} : RatEq(w[c], <<Len(y), 2 * CountOf(y, c)>>)
            /\ CountOf(y, 0) < CountOf(y, 1) <=> RatLess(w[1], w[0])
            /\ CountOf(y, 1) < CountOf(y, 0) <=> RatLess(w[0], w[1])
            /\ CountOf(y, 0) = CountOf(y, 1) <=> RatEq(w[0], w[1])

\* the weights of a vector with three 0 and one 1 have been computed: 2/3
\* and 2
C22_Witness ==
    /\ train.op = "compute_class_weights"
    /\ CountOf(train.arg, 0) = 3 /\ CountOf(train.arg, 1) = 1
    /\ RatEq(train.out[0], <<2, 3>>)
    /\ RatEq(train.out[1], <<2, 1>>)

\* C23: load_model right after save_model on the same path returns an object
\* equal to the one saved; without a path both use MODEL_DIR/xgb_model.pkl,
\* so a model saved by default is the one loaded by default (and by that
\* path given explicitly).
C23_RoundTrip ==
    [][(/\ train.op = "save_model" /\ train'.op = "load_model"
        /\ \/ train'.path = train.path
           \/ {train.path, train'.path} = {None, "models/xgb_model.pkl"}) =>
           /\ train'.out.ok
           /\ train'.out.out = train.arg]_vars

\* a pipeline saved without a path, over another object already in the
\* default file, has been loaded without a path
C23_Witness ==
    /\ train.op = "load_model"
    /\ train.path = None
    /\ train.out.ok
    /\ "xgbclassifier" \in DOMAIN train.out.out
    /\ "tmp/test_model.pkl" \in DOMAIN disk
    /\ Loads(disk["tmp/test_model.pkl"]) # train.out.out

\* the position of the column c in the list h
PositionIn(h, c) == CHOOSE i \in 1..Len(h) : h[i] = c

\* C24: no column is both in FEATURE_COLS and in REMOVE_COLS, so
\* get_feature_columns, which returns the file's columns that are not in
\* REMOVE_COLS in the order of the file, never leaves out a column the model
\* uses as a feature.
C24_FeaturesKept ==
    /\ FEATURE_COLS \cap REMOVE_COLS = {}
    /\ train.op = "get_feature_columns" =>
          LET h == train.arg
              out == train.out
              kept == {out[i] : i \in 1..Len(out)}
              all == {h[i] : i \in 1..Len(h)}
          IN  /\ kept \subseteq all
              /\ all \ kept \subseteq REMOVE_COLS
              /\ kept \cap REMOVE_COLS = {}
              /\ all \cap FEATURE_COLS \subseteq kept
              /\ \A i, j \in 1..Len(out) :
                    i < j => PositionIn(h, out[i]) < PositionIn(h, out[j])

\* the columns of the full header have been taken: the features of the file
\* are there, id and block are not
C24_Witness ==
    /\ train.op = "get_feature_columns"
    /\ Len(train.arg) = 22
    /\ Len(train.out) = 9
    /\ train.out[1] = "date" /\ train.out[2] = "primary_type"
    /\ train.out[9] = "fbi_code"

---------------------------------------------------------------------------
(* The web upload handler: properties *)

\* C25: the web upload handler turns every failure of reading or scoring an
\* accepted upload (gzip decompression, CSV parsing, a missing or unparseable
\* date column, a missing location column, a missing model file) into a
\* rendered error result, never into an exception that leaves the handler.
C25_FailuresRendered ==
    resp.handler = "web" /\ resp.outcome # "rejected" =>
        \/ resp.outcome = "completed"
        \/ resp.outcome = "error" /\ resp.statusCode = 200 /\ resp.error # ""

---------------------------------------------------------------------------
(* Risk tiers and summaries: properties *)

\* C1: in the serverless handler every probability gets exactly one tier by
\* threshold comparison: High when p > 0.7, Medium when 0.3 < p <= 0.7, Low
\* when p <= 0.3; so 0.75 is High, 0.5 Medium, 0.1 Low, 0.7 Medium, 0.3 Low.
C1_RiskTier ==
    lam.built =>
        \A i \in 1..Len(lam.results.probabilities) :
            LET p == lam.results.probabilities[i]
                t == lam.results.risk_levels[i]
            IN  /\ t \in {"Low", "Medium", "High"}
                /\ (t = "High") <=> (p > 700)
                /\ (t = "Medium") <=> (p > 300 /\ p <= 700)
                /\ (t = "Low") <=> (p <= 300)
                /\ p = 750 => t = "High"
                /\ p = 500 => t = "Medium"
                /\ p = 100 => t = "Low"
                /\ p = 700 => t = "Medium"
                /\ p = 300 => t = "Low"

\* a batch with the probabilities 0.7 and 0.3 has been tiered
C1_Witness ==
    /\ lam.built
    /\ Len(lam.results.probabilities) = 2
    /\ lam.results.probabilities = <<700, 300>>
    /\ lam.results.risk_levels = <<"Medium", "Low">>

\* C2: for every probability in [0, 1], 0 and 1 included, the web handler
\* and the serverless handler assign the same tier, one of Low, Medium and
\* High, and so report the same high-risk count for the same batch.
C2_SameTier ==
    (lam.built /\ web.built) =>
        /\ \A i \in 1..Len(scores) :
              /\ web.results.risk_level[i] = lam.results.risk_levels[i]
              /\ web.results.risk_level[i] \in {"Low", "Medium", "High"}
        /\ web.results.high_risk_cases = lam.results.summary.high_risk_cases

\* C10: the summary of process_predictions agrees with the per-incident
\* lists of the same result: total_cases is the length of predictions, of
\* probabilities and of risk_levels, predicted_arrests the number of
\* predictions equal to 1, high_risk_cases the number of risk_levels equal
\* to "High"; both counts lie between 0 and total_cases.
C10_SummaryConsistent ==
    lam.built =>
        LET r == lam.results
            sm == r.summary
        IN  /\ sm.total_cases = Len(r.predictions)
            /\ sm.total_cases = Len(r.probabilities)
            /\ sm.total_cases = Len(r.risk_levels)
            /\ sm.predicted_arrests =
                  Cardinality({i \in 1..Len(r.predictions) : r.predictions[i] = 1})
            /\ sm.high_risk_cases =
                  Cardinality({i \in 1..Len(r.risk_levels) : r.risk_levels[i] = "High"})
            /\ sm.predicted_arrests \in 0..sm.total_cases
            /\ sm.high_risk_cases \in 0..sm.total_cases

\* a batch with one predicted arrest and one high-risk case among two rows
\* has been summarised
C10_Witness ==
    /\ lam.built
    /\ lam.results.summary.total_cases = 2
    /\ lam.results.summary.predicted_arrests = 1
    /\ lam.results.summary.high_risk_cases = 1
    /\ \E i \in 1..2 : lam.results.probabilities[i] = 700

---------------------------------------------------------------------------
(* Handlers: properties *)

\* C8: on every path that calls prepare_features (storage upload, /predict,
\* web upload, create_dataset) a record set whose date field is missing, or
\* holds a value that cannot be parsed as a timestamp, ends in an error
\* outcome and never in a completed result.
C8_BadDateFails ==
    resp.handler # "none" =>
        \A i \in 1..Len(resp.done) : ~HasBadDate(resp.done[i].file)

\* C9: every feature dictionary handed to the classifier, at training and
\* at prediction in the serverless and the web handler, has exactly the
\* names of FEATURE_COLS, whatever extra columns the input file carries.
C9_FixedFeatureSet ==
    resp.handler # "none" =>
        \A i \in 1..Len(resp.done) : resp.done[i].fed = FEATURE_COLS

---------------------------------------------------------------------------
(* The result store and lambda_handler: properties *)

\* the result-retrieval request for the file key k
ResultsRequest(k) == ApiEvent("GET", <<RESULTS_PREFIX, k.stem, k.ext>>, <<>>, EmptyBody)

\* C11: every record of the result store is keyed by its file key, has a
\* processed_at timestamp and a status that is "completed" or "error"; a
\* completed record carries total_cases, predicted_arrests, avg_probability
\* and high_risk_cases, an error record carries error_message; so result
\* retrieval never fails on a missing field of a stored record.
C11_RecordLayout ==
    \A k \in DOMAIN store :
        LET item == store[k]
            got == handle_get_results(ResultsRequest(k),
                       [store |-> store, pipeline |-> pipeline,
                        notified |-> <<>>, done |-> <<>>, effects |-> <<>>], "ok")
        IN  /\ {"file_key", "processed_at", "status"} \subseteq DOMAIN item
            /\ item.file_key = k
            /\ item.status \in {"completed", "error"}
            /\ item.status = "completed" =>
                  {"total_cases", "predicted_arrests", "avg_probability",
                   "high_risk_cases"} \subseteq DOMAIN item
            /\ item.status = "error" => "error_message" \in DOMAIN item
            /\ got.status = item.status
            /\ got.statusCode \in {200, 400}

\* the store holds a completed record under one key and an error record
\* under another
C11_Witness ==
    \E k1, k2 \in DOMAIN store :
        /\ store[k1].status = "completed"
        /\ store[k2].status = "error"
        /\ store[k1].total_cases = 2

\* the records of the answered event that wrote to the store: the completed
\* ones and, when the handler stopped on an unreadable file, the one after
Writers(r) ==
    {j \in 1..Len(r.event.Records) :
        \/ j <= Len(r.done)
        \/ j = Len(r.done) + 1 /\ r.route = "s3" /\ r.status = "error"}

\* what record j of the answered event wrote
Written(r, j) ==
    IF j <= Len(r.done)
    THEN CompletedItem(r.event.Records[j].key, r.done[j].results.summary)
    ELSE ErrorItem(r.event.Records[j].key, r.error)

\* the last record of the answered event that wrote under the key k
LastWriter(r, k) ==
    CHOOSE j \in Writers(r) :
        /\ r.event.Records[j].key = k
        /\ \A i \in Writers(r) : r.event.Records[i].key = k => i <= j

\* C12: the store holds at most one record per file key; after an
\* invocation the record under a key is exactly the item written by the
\* last processing of that key that wrote (nothing of the earlier record is
\* kept), and the records under all other keys are what they were.
C12_KeyedReplace ==
    [][resp'.handler = "lambda" =>
         /\ DOMAIN store \subseteq DOMAIN store'
         /\ \A k \in DOMAIN store' :
               /\ store'[k].file_key = k
               /\ IF \E j \in Writers(resp') : resp'.event.Records[j].key = k
                  THEN store'[k] = Written(resp', LastWriter(resp', k))
                  ELSE k \in DOMAIN store /\ store'[k] = store[k]]_vars

\* one event processed a key twice, first completing and then failing, and
\* the record under the key is the error record, next to another key's record
C12_Witness ==
    /\ resp.handler = "lambda"
    /\ Len(resp.event.Records) = 2
    /\ resp.event.Records[1].key = resp.event.Records[2].key
    /\ Len(resp.done) = 1
    /\ resp.status = "error"
    /\ store[resp.event.Records[1].key] =
          ErrorItem(resp.event.Records[1].key, resp.error)
    /\ \E k \in DOMAIN store : k # resp.event.Records[1].key

\* C13: whenever the processing of a storage record fails, at whatever step
\* (download, decompression, parsing, feature preparation, model loading,
\* prediction, storing the results), an "error" record is left under the
\* record's key.  Stated here for the failures that happen while the result
\* table itself can be written.
C13_FailureRecorded ==
    (/\ resp.handler = "lambda" /\ resp.route = "s3"
     /\ resp.statusCode # 200 /\ resp.error # "put_item failed") =>
        LET failed == resp.event.Records[Len(resp.done) + 1].key
        IN  /\ failed \in DOMAIN store
            /\ store[failed].status = "error"

\* C14: lambda_handler lets no exception out: every invocation ends in a
\* response with a statusCode, and an invocation in which an exception was
\* raised is answered with 500 and an "error" text in the body.
C14_AlwaysAnswers ==
    resp.handler = "lambda" =>
        /\ resp.statusCode \in {200, 400, 404, 500}
        /\ resp.status = "raised" => resp.statusCode = 500 /\ resp.error # ""

\* an exception raised under a request was answered with 500
C14_Witness ==
    /\ resp.handler = "lambda"
    /\ resp.status = "raised"
    /\ resp.statusCode = 500
    /\ \/ resp.route = "predict" /\ resp.error = "AttributeError: .dt"
       \/ resp.route = "upload_url" /\ resp.error = "KeyError: 'filename'"

\* the file key a retrieval request names
RequestedKey(event) == FileKeyOf(StripProd(event.path))

\* C15: a retrieval request that is answered (the table can be read) gets:
\* 400 "Missing file key parameter", the table not read, when the key is
\* empty; 404 with status "processing" when the table has no record under
\* the key; 400 with status "error" and the stored error_message for an
\* error record; 200 with status "completed" and exactly the stored
\* total_cases, predicted_arrests, avg_probability and high_risk_cases for a
\* completed record.
C15_Retrieval ==
    (resp.handler = "lambda" /\ resp.route = "results" /\ resp.status # "raised") =>
        LET k == RequestedKey(resp.event)
        IN  IF k = EmptyKey
            THEN /\ resp.statusCode = 400
                 /\ resp.error = "Missing file key parameter"
                 /\ ~resp.storeRead
            ELSE IF k \notin DOMAIN store
            THEN /\ resp.statusCode = 404
                 /\ resp.status = "processing"
                 /\ resp.storeRead
            ELSE IF store[k].status = "error"
            THEN /\ resp.statusCode = 400
                 /\ resp.status = "error"
                 /\ resp.error = store[k].error_message
            ELSE /\ store[k].status = "completed"
                 /\ resp.statusCode = 200
                 /\ resp.status = "completed"
                 /\ resp.summary =
                      [total_cases |-> store[k].total_cases,
                       predicted_arrests |-> store[k].predicted_arrests,
                       avg_probability |-> store[k].avg_probability,
                       high_risk_cases |-> store[k].high_risk_cases]

\* the record of a processed two-row file was retrieved
C15_Witness ==
    /\ resp.handler = "lambda"
    /\ resp.route = "results"
    /\ resp.statusCode = 200
    /\ resp.status = "completed"
    /\ resp.summary.total_cases = 2
    /\ store[RequestedKey(resp.event)].status = "completed"

\* the keys of the first n records
KeysUpTo(records, n) == {records[j].key : j \in 1..n}

\* C16: the records of a storage event are processed in list order, each at
\* most once; when reading a record fails the handler stops and answers 500,
\* the later records are not processed and get no entry in the store, and
\* the completed entries and notifications of the earlier records stay.
C16_StopAtFailure ==
    [][(resp'.handler = "lambda" /\ resp'.route = "s3") =>
         LET rs == resp'.event.Records
             n == Len(resp'.done)
         IN  /\ n <= Len(rs)
             /\ \A j \in 1..n : resp'.done[j].file = rs[j].file
             /\ resp'.notified \in {<<>>, [j \in 1..n |-> rs[j].key]}
             /\ resp'.status = "error" =>
                   /\ resp'.statusCode = 500
                   /\ n < Len(rs)
                   /\ store'[rs[n + 1].key] = ErrorItem(rs[n + 1].key, resp'.error)
                   /\ \A k \in KeysUpTo(rs, Len(rs)) \ KeysUpTo(rs, n + 1) :
                         /\ k \in DOMAIN store' <=> k \in DOMAIN store
                         /\ k \in DOMAIN store => store'[k] = store[k]
                   /\ \A j \in 1..n :
                         (\A l \in (j + 1)..(n + 1) : rs[l].key # rs[j].key) =>
                             store'[rs[j].key] =
                                 CompletedItem(rs[j].key,
                                               resp'.done[j].results.summary)]_vars

\* the first of two records could not be read: the answer is 500, nothing
\* was processed and the second record's key has no entry
C16_Witness ==
    /\ resp.handler = "lambda"
    /\ resp.route = "s3"
    /\ Len(resp.event.Records) = 2
    /\ resp.status = "error"
    /\ resp.statusCode = 500
    /\ resp.done = <<>>
    /\ resp.event.Records[2].key \notin DOMAIN store
    /\ resp.event.Records[1].key \in DOMAIN store

\* the results of record j of the answered storage event when predicted with
\* the handle h alone, no pickle on disk
PredictedWith(r, j, h) ==
    process_predictions(ReadUpload(r.event.Records[j].key,
                                   r.event.Records[j].file).df,
                        r.event.Records[j].key, h, NoModel).results

\* C17: the model handle is loaded lazily and then only read: a loaded
\* handle is never reassigned, whatever is saved to disk afterwards, and
\* every later prediction is made with it; the handle is first set by a
\* storage event that reached prediction for a readable file, to the pickle
\* then on disk; health, upload-URL, retrieval, OPTIONS and unknown requests,
\* events of neither kind and events whose first file cannot be read leave
\* the handle as it is.
C17_LazyReadOnly ==
    [][/\ pipeline.loaded => pipeline' = pipeline
       /\ pipeline' # pipeline =>
             /\ pickle.loaded /\ pipeline' = pickle
             /\ resp'.route = "s3"
             /\ Len(resp'.done) >= 1 \/ resp'.status = "raised"
       /\ (pipeline.loaded /\ resp'.handler = "lambda") =>
             \A j \in 1..Len(resp'.done) :
                 resp'.done[j].results = PredictedWith(resp', j, pipeline)]_vars

\* a file was predicted with a loaded handle that differs from the pickle
\* now on disk
C17_Witness ==
    /\ pipeline.loaded
    /\ pickle # pipeline
    /\ resp.handler = "lambda"
    /\ resp.route = "s3"
    /\ Len(resp.done) >= 1
    /\ resp.done[1].results = PredictedWith(resp, 1, pipeline)
    /\ resp.done[1].results # PredictedWith(resp, 1, pickle)

\* the routes of handle_api_request
ApiRoutes == {"upload_url", "results", "predict", "options", "health", "not_found"}

\* the state an invocation starts from
Before ==
    [store |-> store, pipeline |-> pipeline, notified |-> <<>>, done |-> <<>>,
     effects |-> <<>>]

\* C18: lambda_handler hands each event to one handler: to the storage
\* handler when the event has "Records", whether or not it has "httpMethod"
\* too (the outcome is that of the same records without "httpMethod"); to
\* the API handler when it has "httpMethod" and no "Records"; an event with
\* neither is answered 400 "Invalid event type" and leaves the store, the
\* model handle and the notification channel alone, reading nothing.
C18_Dispatch ==
    [][(resp'.handler = "lambda" /\ pickle' = pickle) =>
         LET e == resp'.event
         IN  /\ e.hasRecords => resp'.route = "s3"
             /\ (e.hasRecords /\ e.hasMethod) =>
                   \E env \in Environments :
                        \E a \in {lambda_handler(RecordsEvent(e.Records, FALSE),
                                                 Before, env, pickle)} :
                            /\ a.st.store = store'
                            /\ a.st.pipeline = pipeline'
                            /\ a.st.done = resp'.done
                            /\ a.st.notified = resp'.notified
                            /\ a.statusCode = resp'.statusCode
                            /\ a.error = resp'.error
             /\ (~e.hasRecords /\ e.hasMethod) =>
                   /\ resp'.route \in ApiRoutes
                   /\ resp'.done = <<>> /\ resp'.notified = <<>>
             /\ (~e.hasRecords /\ ~e.hasMethod) =>
                   /\ resp'.route = "invalid"
                   /\ resp'.statusCode = 400
                   /\ resp'.error = INVALID_EVENT
                   /\ store' = store /\ pipeline' = pipeline
                   /\ resp'.done = <<>> /\ resp'.notified = <<>>
                   /\ ~resp'.storeRead]_vars

\* an event with both "Records" and "httpMethod" was processed as a storage
\* event: its file was predicted, stored and notified
C18_Witness ==
    /\ resp.handler = "lambda"
    /\ resp.event.hasRecords /\ resp.event.hasMethod
    /\ resp.route = "s3"
    /\ resp.statusCode = 200
    /\ Len(resp.done) = 1
    /\ resp.notified = <<resp.event.Records[1].key>>
    /\ store[resp.event.Records[1].key].status = "completed"

\* the same request sent through the /prod stage
ThroughProd(event) == [event EXCEPT !.path = <<"prod">> \o @]

\* C19: handle_api_request takes each request to the one route its method
\* and normalised path name: POST /get-upload-url to upload-URL issuance,
\* GET on a path beginning /get-results/ to retrieval, POST /predict to
\* prediction, GET /health to 200 "healthy", OPTIONS on any path to 200 with
\* an empty body, everything else to 404 "Not found"; and the same request
\* with /prod in front of its path is taken to the same route.
C19_Routes ==
    (resp.handler = "lambda" /\ ~resp.event.hasRecords /\ resp.event.hasMethod) =>
        LET e == resp.event
            m == e.httpMethod
            p == RoutePath(e)
        IN  /\ (m = "POST" /\ p = <<"get-upload-url">>) <=> resp.route = "upload_url"
            /\ (m = "GET" /\ Len(p) >= 2 /\ p[1] = "get-results")
                  <=> resp.route = "results"
            /\ (m = "POST" /\ p = <<"predict">>) <=> resp.route = "predict"
            /\ (m = "GET" /\ p = <<"health">>) <=> resp.route = "health"
            /\ resp.route = "health" =>
                  resp.statusCode = 200 /\ resp.status = "healthy"
            /\ m = "OPTIONS" <=> resp.route = "options"
            /\ resp.route = "options" =>
                  resp.statusCode = 200 /\ resp.status = "" /\ resp.error = ""
            /\ resp.route \in ApiRoutes
            /\ resp.route = "not_found" =>
                  resp.statusCode = 404 /\ resp.error = "Not found"
            /\ (e.proxy = <<>> /\ (e.path = <<>> \/ e.path[1] # "prod")) =>
                  handle_api_request(ThroughProd(e), Before, "ok", pickle).route
                      = resp.route

\* GET /prod/health was answered 200 "healthy"
C19_Witness ==
    /\ resp.handler = "lambda"
    /\ resp.event.httpMethod = "GET"
    /\ resp.event.path = <<"prod", "health">>
    /\ resp.route = "health"
    /\ resp.statusCode = 200
    /\ resp.status = "healthy"

\* C26: the completed record is written before its notification is
\* attempted; one notification is attempted for every completed record and
\* none for an error record; a notification that fails leaves the stored
\* record and the 200 answer as they are when it succeeds.
C26_StoreThenNotify ==
    [][resp'.handler = "lambda" =>
        \E e \in {resp'.effects} :
            /\ \A i \in 1..Len(e) :
                  /\ e[i].call = "send_email" =>
                        i > 1 /\ e[i - 1] = PutItem(e[i].key, "completed")
                  /\ e[i].call = "put_item" => e[i].key \in DOMAIN store'
                  /\ e[i].call = "put_item" /\ e[i].status = "completed" =>
                        /\ i < Len(e)
                        /\ e[i + 1].call = "send_email"
                        /\ e[i + 1].key = e[i].key
                  /\ e[i].call = "put_item" /\ e[i].status = "error" =>
                        i = Len(e) \/ e[i + 1].call = "put_item"
            /\ (\E i \in 1..Len(e) : e[i].call = "send_email" /\ ~e[i].sent) =>
                  \E b \in {lambda_handler(resp'.event, Before, "ok", pickle)} :
                      /\ b.st.store = store'
                      /\ b.statusCode = resp'.statusCode
                      /\ b.st.done = resp'.done
                      /\ Len(b.st.effects) = Len(e)]_vars

\* a file was processed while the mail service was down: the item is in the
\* table, the one notification attempt failed, the answer is 200
C26_Witness ==
    /\ resp.handler = "lambda"
    /\ resp.statusCode = 200
    /\ Len(resp.effects) = 2
    /\ resp.effects[1] = PutItem(resp.event.Records[1].key, "completed")
    /\ resp.effects[2].call = "send_email" /\ ~resp.effects[2].sent
    /\ resp.notified = <<>>
    /\ store[resp.event.Records[1].key].status = "completed"

\* C27: once the storage event of a key has been handled, with or without
\* success, retrieval of the key answers 200 "completed" or 400 "error" and
\* never "processing" again, so a client polling for its results stops.
\* Stated for the first record of an event whose object exists, handled
\* while the table can be written.
C27_PollingEnds ==
    (/\ resp.handler = "lambda"
     /\ resp.route = "s3"
     /\ resp.event.Records # <<>>
     /\ resp.error \notin {"NoSuchKey", "put_item failed"}) =>
        handle_get_results(ResultsRequest(resp.event.Records[1].key),
                           Before, "ok").status \in {"completed", "error"}

\* C28: a request of the API (direct prediction, upload-URL issuance,
\* retrieval, health, OPTIONS, or one that matches no route) never writes,
\* overwrites or deletes an item of the result table and never sends a
\* notification; the table changes only while a storage event is handled.
C28_ApiReadOnly ==
    [][/\ (resp'.handler = "lambda" /\ resp'.route \in ApiRoutes) =>
            /\ store' = store
            /\ resp'.effects = <<>>
            /\ resp'.notified = <<>>
       /\ store' # store =>
            /\ resp'.handler = "lambda"
            /\ resp'.route = "s3"
            /\ \E i \in 1..Len(resp'.effects) : resp'.effects[i].call = "put_item"]_vars

\* an upload URL was issued while the table held the item of a processed
\* file, which is still there
C28_Witness ==
    /\ resp.handler = "lambda"
    /\ resp.route = "upload_url"
    /\ resp.statusCode = 200
    /\ resp.effects = <<>>
    /\ \E k \in DOMAIN store : store[k].status = "completed"

\* C29: when handle_api_request takes a GET request to retrieval, the key
\* handle_get_results looks up is the remainder after "/get-results/" of the
\* path the route was matched on (also when that path had its /prod prefix
\* removed or came from the proxy path parameter), and the answer is 400
\* "Missing file key parameter" only when that remainder is empty.
C29_SameKey ==
    (resp.handler = "lambda" /\ resp.route = "results") =>
        /\ RequestedKey(resp.event) = FileKeyOf(RoutePath(resp.event))
        /\ (resp.statusCode = 400 /\ resp.error = "Missing file key parameter")
              => FileKeyOf(RoutePath(resp.event)) = EmptyKey

---------------------------------------------------------------------------
(* The extraction script: properties *)

\* the rows 1..n in their order
RowsUpTo(n) == [j \in 1..n |-> j]

\* the offsets 0, limit, 2*limit, ... of k requests
OffsetsOf(k) == [j \in 1..k |-> (j - 1) * limit]

\* what the extraction has done so far is as it should be
ExtractSafe ==
    /\ extract.requests = OffsetsOf(Len(extract.requests))
    /\ Len(extract.requests) <= MaxRemote \div limit + 1
    /\ Len(saved) = IF extract.pc \in {"fetch", "save"} THEN extract.i - 1
                    ELSE Len(batches)
    /\ \A b \in 1..Len(saved) :
          /\ saved[b].filepath = <<"data", batches[b], ".gz">>
          /\ \E h \in {extract.history[b]} : \E k \in {Len(h.requests)} :
                /\ h.requests = OffsetsOf(k)
                /\ \A j \in 1..(k - 1) : remote[b] >= j * limit
                /\ IF h.failed
                   THEN saved[b].rows = RowsUpTo((k - 1) * limit)
                   ELSE /\ remote[b] - (k - 1) * limit < limit
                        /\ saved[b].rows = RowsUpTo(remote[b])

\* C30: for each batch the pages are requested at the offsets 0, limit,
\* 2*limit, ... without gap or repetition; the loop stops at the first page
\* with fewer than limit rows or at the first fetch error, which is not
\* retried; exactly the rows accumulated until then are saved; and the
\* script ends with the three files written in the order train,
\* validation, test, also when a fetch has failed.
C30_Terminates ==
    /\ []ExtractSafe
    /\ <>(extract.pc = "done" /\ Len(saved) = Len(batches))

\* the script has ended with three files: one batch took three requests and
\* was saved whole, another lost its rows after the first page to an error
C30_Witness ==
    /\ extract.pc = "done"
    /\ Len(saved) = 3
    /\ \E b \in 1..3 :
          /\ ~extract.history[b].failed
          /\ Len(extract.history[b].requests) = 3
          /\ Len(saved[b].rows) = remote[b]
    /\ \E b \in 1..3 :
          /\ extract.history[b].failed
          /\ Len(saved[b].rows) = limit
          /\ remote[b] > limit

=============================================================================
